---------------------------- MODULE Spec2Model ----------------------------
(***************************************************************************)
(* A model of ogg_monitor.py: one poll cycle of the GoldenGate monitor     *)
(* (main and the methods of OggZabbix it calls, in order) and the advisory *)
(* single-run lock taken by several concurrent invocations.                *)
(*                                                                         *)
(* A line of text is modelled by the list of its tokens, i.e. by what      *)
(* list(filter(None, line.split(' '))) returns; a token is a string.  A    *)
(* test "phrase in line" is a test for the phrase's words as consecutive   *)
(* tokens.  Python indexes from 0 and TLA+ from 1: splitted_line[k] is     *)
(* written tok[k+1] here.                                                  *)
(***************************************************************************)
EXTENDS Integers, Sequences, FiniteSets, TLC

(***************************************************************************)
(* Bounds of the model.                                                    *)
(***************************************************************************)
\* lines of report content (outside the marker lines) plus marker defects
MaxLines == 3
\* lines of the OS process listing
MaxListing == 1
\* concurrent invocations that share one OGG_HOME
NumInvocations == 3

(***************************************************************************)
(* Strings, character by character.                                        *)
(***************************************************************************)
CharAt(s, i) == SubSeq(s, i, i)

RECURSIVE StrRemove(_, _)
\* s.replace(c, '') for a one-character c
StrRemove(s, c) ==
    IF Len(s) = 0 THEN ""
    ELSE (IF CharAt(s, 1) = c THEN "" ELSE CharAt(s, 1))
         \o StrRemove(SubSeq(s, 2, Len(s)), c)

RECURSIVE StrRFindFrom(_, _, _)
StrRFindFrom(s, c, i) ==
    IF i = 0 THEN 0
    ELSE IF CharAt(s, i) = c THEN i ELSE StrRFindFrom(s, c, i - 1)

\* s.rfind(c) + 1: the 1-based position of the last c, 0 when there is none
StrRFind(s, c) == StrRFindFrom(s, c, Len(s))

RECURSIVE StrFindFrom(_, _, _)
StrFindFrom(s, c, i) ==
    IF i > Len(s) THEN 0
    ELSE IF CharAt(s, i) = c THEN i ELSE StrFindFrom(s, c, i + 1)

\* s.find(c) + 1
StrFind(s, c) == StrFindFrom(s, c, 1)

\* s[a:b] of Python for 0 <= a, 0 <= b (0-based, end exclusive)
StrSlice(s, a, b) ==
    LET e == IF b > Len(s) THEN Len(s) ELSE b
    IN  IF a >= e THEN "" ELSE SubSeq(s, a + 1, e)

DigitValue(c) ==
    CASE c = "0" -> 0 [] c = "1" -> 1 [] c = "2" -> 2 [] c = "3" -> 3
      [] c = "4" -> 4 [] c = "5" -> 5 [] c = "6" -> 6 [] c = "7" -> 7
      [] c = "8" -> 8 [] c = "9" -> 9 [] OTHER -> -1

RECURSIVE IsDigits(_)
IsDigits(s) ==
    IF Len(s) = 0 THEN TRUE
    ELSE DigitValue(CharAt(s, 1)) >= 0 /\ IsDigits(SubSeq(s, 2, Len(s)))

\* int(s) accepts an optional sign and digits; anything else raises ValueError
IntOk(s) ==
    IF Len(s) > 0 /\ CharAt(s, 1) \in {"-", "+"}
    THEN Len(s) > 1 /\ IsDigits(SubSeq(s, 2, Len(s)))
    ELSE Len(s) > 0 /\ IsDigits(s)

RECURSIVE DigitsValue(_, _)
DigitsValue(s, acc) ==
    IF Len(s) = 0 THEN acc
    ELSE DigitsValue(SubSeq(s, 2, Len(s)), 10 * acc + DigitValue(CharAt(s, 1)))

\* int(s), for an s that IntOk accepts
IntOf(s) ==
    IF CharAt(s, 1) = "-" THEN 0 - DigitsValue(SubSeq(s, 2, Len(s)), 0)
    ELSE IF CharAt(s, 1) = "+" THEN DigitsValue(SubSeq(s, 2, Len(s)), 0)
    ELSE DigitsValue(s, 0)

RECURSIVE StrSplit(_, _)
\* s.split(c)
StrSplit(s, c) ==
    LET p == StrFind(s, c)
    IN  IF p = 0 THEN <<s>>
        ELSE <<SubSeq(s, 1, p - 1)>> \o StrSplit(SubSeq(s, p + 1, Len(s)), c)

(***************************************************************************)
(* Lists and dictionaries.                                                 *)
(***************************************************************************)
\* list.index(x) + 1: the first position of x, 0 where Python raises ValueError
Index(list, x) ==
    IF \E i \in 1..Len(list) : list[i] = x
    THEN CHOOSE i \in 1..Len(list) :
            /\ list[i] = x
            /\ \A j \in 1..(i - 1) : list[j] # x
    ELSE 0

\* phrase in line, the phrase given by its words
Contains(tok, phrase) ==
    \E i \in 0..(Len(tok) - Len(phrase)) :
        \A j \in 1..Len(phrase) : tok[i + j] = phrase[j]

\* d[k] = v
DictPut(d, k, v) ==
    [x \in (DOMAIN d) \cup {k} |-> IF x = k THEN v ELSE d[x]]

EmptyDict == [x \in {} |-> ""]


RECURSIVE SetToSeq(_)
\* the keys of a Python 2 dictionary in the order "for key in d" yields them:
\* some fixed order that the interpreter decides, not the insertion order
SetToSeq(S) ==
    IF S = {} THEN <<>>
    ELSE LET x == CHOOSE y \in S : TRUE
         IN  <<x>> \o SetToSeq(S \ {x})

Keys(d) == SetToSeq(DOMAIN d)

RECURSIVE Join(_)
\* ' '.join(tok): the text of a line whose words are single-spaced
Join(tok) ==
    IF Len(tok) = 0 THEN ""
    ELSE IF Len(tok) = 1 THEN tok[1]
    ELSE tok[1] \o " " \o Join(Tail(tok))

LowerChar(c) ==
    CASE c = "A" -> "a" [] c = "B" -> "b" [] c = "C" -> "c" [] c = "D" -> "d"
      [] c = "E" -> "e" [] c = "F" -> "f" [] c = "G" -> "g" [] c = "H" -> "h"
      [] c = "I" -> "i" [] c = "J" -> "j" [] c = "K" -> "k" [] c = "L" -> "l"
      [] c = "M" -> "m" [] c = "N" -> "n" [] c = "O" -> "o" [] c = "P" -> "p"
      [] c = "Q" -> "q" [] c = "R" -> "r" [] c = "S" -> "s" [] c = "T" -> "t"
      [] c = "U" -> "u" [] c = "V" -> "v" [] c = "W" -> "w" [] c = "X" -> "x"
      [] c = "Y" -> "y" [] c = "Z" -> "z" [] OTHER -> c

RECURSIVE StrLower(_)
StrLower(s) ==
    IF Len(s) = 0 THEN ""
    ELSE LowerChar(CharAt(s, 1)) \o StrLower(SubSeq(s, 2, Len(s)))

\* the words of line.lower()
LowerTokens(tok) == [i \in 1..Len(tok) |-> StrLower(tok[i])]

\* sub in s, for strings
StrHas(s, sub) ==
    \E i \in 0..(Len(s) - Len(sub)) : SubSeq(s, i + 1, i + Len(sub)) = sub

(***************************************************************************)
(* The marker lines the parsers search for, and the lines a report is made *)
(* of.                                                                     *)
(***************************************************************************)
InfoStart == <<"====", "INFO", "*", "SECTION", "START", "====">>
InfoEnd == <<"====", "INFO", "*", "SECTION", "END", "====">>
InfoAllStart == <<"====", "INFO", "ALL", "SECTION", "START", "====">>
InfoAllEnd == <<"====", "INFO", "ALL", "SECTION", "END", "====">>
GetlagStart == <<"====", "GETLAG", "SECTION", "START", "====">>
GetlagEnd == <<"====", "GETLAG", "SECTION", "END", "====">>
ManagerStart == <<"====", "MANAGER", "SECTION", "START", "====">>
ManagerEnd == <<"====", "MANAGER", "SECTION", "END", "====">>

\* the names of the service daemons of the summary pass
DaemonNames == {"MANAGER", "ADMINSRV", "ADMINSRVR", "DISTSRVR", "PMSRVR", "RECVSRVR"}

\* lines of the console's banner
PreambleLines ==
    { <<"Oracle", "GoldenGate", "Command", "Interpreter", "for", "Oracle">>,
      <<"Version", "19.1.0.0.4", "OGGCORE_19.1.0.0.0_PLATFORMS">> }

\* lines of "info * detail"
DetailLines ==
    { <<"EXTRACT", "EXT1", "Last", "Started", "2020-05-01", "10:00", "Status", "RUNNING">>,
      <<"EXTRACT", "EXT2", "00:01:30", "Checkpoint", "Lag", "Status", "STOPPED">>,
      <<"Checkpoint", "Lag", "00:01:30", "(updated", "00:00:05", "ago)">>,
      <<"EXTRACT", "EXT3", "Status">>,
      <<"EXTRACT", "EXT4", "1234", "Process", "ID", "Status", "RUNNING">> }

\* lines of "info all"
SummaryLines ==
    { <<"MANAGER", "RUNNING">>,
      <<"PMSRVR", "STOPPED">> }

\* lines of "send * getlag"
GetlagLines ==
    { <<"Sending", "GETLAG", "request", "to", "EXTRACT", "EXT1", "...">>,
      <<"Sending", "GETLAG", "request", "to", "REPLICAT", "REP1", "...">>,
      <<"Last", "record", "lag", "12,345.678", "seconds.">>,
      <<"No", "records", "yet", "processed">>,
      <<"Average", "Lag:", "7">>,
      <<"Average", "Lag:">> }

\* lines of "info mgr"
ManagerLines ==
    { <<"Manager", "is", "running", "(IP", "port", "srv1.7809,", "Process", "ID", "1234).">>,
      <<"Manager", "is", "DOWN!">> }

\* the marker lines that the console script of prepare_ogg_script prints, in
\* its order; the start marker of the manager section ends in three '='
PrintedMarkers ==
    << <<"====", "INFO", "*", "SECTION", "START", "====">>,
       <<"====", "INFO", "*", "SECTION", "END", "====">>,
       <<"====", "INFO", "ALL", "SECTION", "START", "====">>,
       <<"====", "INFO", "ALL", "SECTION", "END", "====">>,
       <<"====", "GETLAG", "SECTION", "START", "====">>,
       <<"====", "GETLAG", "SECTION", "END", "====">>,
       <<"====", "MANAGER", "SECTION", "START", "===">>,
       <<"====", "MANAGER", "SECTION", "END", "====">> >>

\* what became of a section's two marker lines; "printed" is the manager
\* section as the console script marks it
MarkerDefects == {"nostart", "noend", "swapped", "printed"}

Section(start, end, content, defect) ==
    CASE defect = "nostart" -> content \o <<end>>
      [] defect = "printed" ->
            <<IF start = ManagerStart THEN PrintedMarkers[7] ELSE start>> \o content \o <<end>>
      [] defect = "noend" -> <<start>> \o content
      [] defect = "swapped" -> <<end>> \o content \o <<start>>
      [] OTHER -> <<start>> \o content \o <<end>>

\* the report: banner, then the four sections in the order the console script
\* asks for them; bad names the one section (if any) whose markers are defective
Report(pre, det, all, lag, mgr, bad, defect) ==
    pre
    \o Section(InfoStart, InfoEnd, det, IF bad = "info" THEN defect ELSE "ok")
    \o Section(InfoAllStart, InfoAllEnd, all, IF bad = "infoall" THEN defect ELSE "ok")
    \o Section(GetlagStart, GetlagEnd, lag, IF bad = "getlag" THEN defect ELSE "ok")
    \o Section(ManagerStart, ManagerEnd, mgr, IF bad = "manager" THEN defect ELSE "ok")

SectionNames == {"info", "infoall", "getlag", "manager"}

(***************************************************************************)
(* The state of one invocation (the fields of OggZabbix that the poll      *)
(* cycle reads and writes) and of the lock file shared by invocations.     *)
(***************************************************************************)
VARIABLES
    pc,                       \* the method main calls next, or "exit"
    exit_code,                \* the status the invocation ended with, -1 while it runs
    failed,                   \* the method that ended the run fatally, "" if none
    now,                      \* the system clock, in seconds
    utc_string,               \* self.utc_string
    use_hostname_for_zabbix,  \* self.use_hostname_for_zabbix
    ogg_architecture,         \* self.ogg_architecture
    sm_port,                  \* self.sm_port
    ogg_script_outlist,       \* self.ogg_script_outlist
    ogg_version,              \* self.ogg_version
    ogg_database,             \* self.ogg_database
    process_dictionary,       \* self.process_dictionary
    ogg_zabbix_list,          \* self.ogg_zabbix_list
    json_string,              \* self.json_string
    zbx_hostname,             \* self.zbx_hostname
    mgr_prm_output,           \* what the lookup of OGG_INSTANCE_ID in mgr.prm returned
    ogg_total_memory,         \* self.ogg_total_memory
    ps_output,                \* what get_shell_output gave processes_memory: the listing, or raised
    zbx_data,                 \* the lines send_to_zabbix handed to zabbix_sender
    sender_runs,              \* how many times send_to_zabbix was invoked
    ipc,                      \* lock model: where each invocation is
    path_inode,               \* lock model: the inode the lock path names, 0 if none
    mutex,                    \* lock model: the inode each invocation has open, 0 if none
    flock_holder,             \* lock model: per inode, the invocation holding its flock, 0 if none
    inodes                    \* lock model: how many inodes were created

pollVars ==
    <<pc, exit_code, failed, now, utc_string, use_hostname_for_zabbix,
      ogg_architecture, sm_port, ogg_script_outlist, ogg_version, ogg_database,
      process_dictionary, ogg_zabbix_list, json_string, zbx_hostname,
      ogg_total_memory, ps_output, zbx_data, sender_runs, mgr_prm_output>>

lockVars == <<ipc, path_inode, mutex, flock_holder, inodes>>

vars == <<pollVars, lockVars>>

(***************************************************************************)
(* Metric lines.  A line of ogg_zabbix_list is                             *)
(*    <item><name>,<key>] <ts> "<value>"                                   *)
(* and is kept as the record of its parts; item is the text up to and      *)
(* including the opening bracket.                                          *)
(***************************************************************************)
\* the line stamped with the clock at the moment it is built
ProcessLineClock(name, key, value) ==
    [kind |-> "process", item |-> "ogg.process[", name |-> name, key |-> key,
     ts |-> ToString(now), value |-> value, data |-> <<>>]

\* 'ogg.process[' + name + ',' + key + '] ' + self.utc_string + ' "' + value + '"'
ProcessLine(name, key, value) ==
    [kind |-> "process", item |-> "ogg.process[", name |-> name, key |-> key,
     ts |-> utc_string, value |-> value, data |-> <<>>]

(***************************************************************************)
(* parse_output_get_static_settings                                        *)
(***************************************************************************)
BannerPhrases ==
    { <<"Oracle", "GoldenGate", "Command", "Interpreter", "for">>,
      <<"Oracle", "GoldenGate", "Administration", "Client", "for">> }

RECURSIVE StaticScan(_, _, _, _)
\* the loop over range(parse_start, parse_end); st = [db, ver, err]
StaticScan(outlist, i, parse_end, st) ==
    IF st.err \/ i >= parse_end THEN st
    ELSE LET tok == outlist[i]
             isBanner == \E ph \in BannerPhrases : Contains(tok, ph)
             st1 == IF ~isBanner THEN st
                    ELSE IF Len(tok) < 6 THEN [st EXCEPT !.err = TRUE]
                    ELSE [st EXCEPT !.db = tok[6]]
             st2 == IF st1.err THEN st1
                    ELSE IF Len(tok) = 0 THEN st1
                    ELSE IF ~StrHas(tok[1], "Version") THEN st1
                    ELSE IF Len(tok) < 2 THEN [st1 EXCEPT !.err = TRUE]
                    ELSE [st1 EXCEPT !.ver = tok[2]]
         IN  StaticScan(outlist, i + 1, parse_end, st2)

\* the version and database the method leaves in self, and whether it raised
StaticSettings(outlist) ==
    LET parse_end == Index(outlist, InfoStart)
        st0 == [db |-> "", ver |-> "", err |-> FALSE]
    IN  IF parse_end = 0 THEN [st0 EXCEPT !.err = TRUE]
        ELSE StaticScan(outlist, 1, parse_end, st0)

(***************************************************************************)
(* parse_output_info_section                                               *)
(***************************************************************************)
\* the record process_dict keeps per name: a list of six strings
ProcessEntry(trail, trail_type, seq, rba, scn, pid) ==
    <<trail, trail_type, seq, rba, scn, pid>>

\* position of the first digit of s (re.search('\d', s).start() + 1), 0 if none
RECURSIVE FirstDigitFrom(_, _)
FirstDigitFrom(s, i) ==
    IF i > Len(s) THEN 0
    ELSE IF DigitValue(CharAt(s, i)) >= 0 THEN i ELSE FirstDigitFrom(s, i + 1)

\* the locals of the detail pass before its loop
DetailLocals(ogg_list, process_dict) ==
    [process_name |-> "", process_type |-> "", process_list |-> <<>>,
     status_dict |-> EmptyDict, checkpoint_dict |-> EmptyDict,
     process_dict |-> process_dict,
     process_trail |-> "", process_trail_type |-> "",
     process_seq |-> "0", process_rba |-> "0", process_scn |-> "0",
     process_pid |-> "0", ogg_list |-> ogg_list, err |-> FALSE]

Raise(st) == [st EXCEPT !.err = TRUE]

\* a line whose first word is EXTRACT or REPLICAT opens a process
OpenProcess(tok, st) ==
    [st EXCEPT !.process_name = tok[2],
               !.process_type = tok[1],
               !.process_list = Append(st.process_list, tok[2]),
               !.process_trail = "",
               !.process_seq = "0",
               !.process_rba = "0",
               !.process_scn = "0"]

\* status_name = splitted_line[splitted_line.index('Status')+1]
StatusBranch(tok, st) ==
    LET at == Index(tok, "Status")
    IN  IF at = 0 \/ at + 1 > Len(tok) THEN Raise(st)
        ELSE IF tok[at + 1] # ""
        THEN [st EXCEPT !.status_dict = DictPut(st.status_dict, st.process_name, tok[at + 1])]
        ELSE st

\* 'Process ID' in outlist[i]
ProcessIdBranch(tok, st) ==
    IF st.err \/ ~Contains(tok, <<"Process", "ID">>) THEN st
    ELSE [st EXCEPT !.process_pid = tok[3]]

\* 'Trail Name' in outlist[i], for an EXTRACT: the values come from the next line
TrailNameBranch(outlist, i, st) ==
    IF st.err THEN st
    ELSE IF ~(Contains(outlist[i], <<"Trail", "Name">>) /\ st.process_type = "EXTRACT")
    THEN st
    ELSE IF i + 1 > Len(outlist) \/ Len(outlist[i + 1]) < 5 THEN Raise(st)
    ELSE [st EXCEPT !.process_trail = outlist[i + 1][1],
                    !.process_seq = outlist[i + 1][2],
                    !.process_rba = outlist[i + 1][3],
                    !.process_trail_type = outlist[i + 1][5]]

\* ' SCN ' in outlist[i]: the text between the first '(' and the first ')'
ScnBranch(tok, st) ==
    IF ~(\E k \in 2..(Len(tok) - 1) : tok[k] = "SCN") THEN st
    ELSE LET line == Join(tok)
             a == StrFind(line, "(")
             f == StrFind(line, ")")
             b == IF f = 0 THEN Len(line) - 1 ELSE f - 1
         IN  [st EXCEPT !.process_scn = StrSlice(line, a, b)]

\* the REPLICAT's trail, sequence and RBA from the checkpoint file's path
ReplicatTrail(outlist, i, path, st) ==
    LET slash == StrRFind(path, "/")
        d == FirstDigitFrom(SubSeq(path, slash + 1, Len(path)), 1)
    IN  IF d = 0 THEN Raise(st)
        ELSE IF ~IntOk(SubSeq(path, slash + d, Len(path))) THEN Raise(st)
        ELSE IF i + 1 > Len(outlist) \/ Len(outlist[i + 1]) < 4 THEN Raise(st)
        ELSE [st EXCEPT !.process_trail_type = "LOCALTRAIL",
                        !.process_seq = ToString(IntOf(SubSeq(path, slash + d, Len(path)))),
                        !.process_rba = outlist[i + 1][4],
                        !.process_trail = SubSeq(path, 1, slash + d - 1)]

\* 'Log Read Checkpoint File' in outlist[i]; the SCN test is inside this branch
CheckpointFileBranch(outlist, i, st) ==
    IF st.err \/ ~Contains(outlist[i], <<"Log", "Read", "Checkpoint", "File">>) THEN st
    ELSE IF st.process_type # "REPLICAT" THEN ScnBranch(outlist[i], st)
    ELSE IF Len(outlist[i]) < 5 THEN Raise(st)
    ELSE ScnBranch(outlist[i], ReplicatTrail(outlist, i, outlist[i][5], st))

\* 'Checkpoint Lag' in outlist[i]
CheckpointLagBranch(tok, st) ==
    IF st.err \/ ~Contains(tok, <<"Checkpoint", "Lag">>) THEN st
    ELSE [st EXCEPT !.checkpoint_dict =
             DictPut(st.checkpoint_dict, st.process_name,
                     StrRemove(StrRemove(tok[3], ","), "."))]

\* process_dict[process_name] = [...]
StoreEntry(st) ==
    IF st.err \/ st.process_name = "" THEN st
    ELSE [st EXCEPT !.process_dict =
             DictPut(st.process_dict, st.process_name,
                     ProcessEntry(st.process_trail, st.process_trail_type,
                                  st.process_seq, st.process_rba,
                                  st.process_scn, st.process_pid))]

\* one line of the "info *" window: every test on the line is made inside the
\* branch of a process-opening line
DetailLine(outlist, i, st) ==
    IF Len(outlist[i]) = 0 THEN Raise(st)
    ELSE IF outlist[i][1] \notin {"EXTRACT", "REPLICAT"} THEN st
    ELSE IF Len(outlist[i]) < 2 THEN Raise(st)
    ELSE StoreEntry(
           CheckpointLagBranch(outlist[i],
             CheckpointFileBranch(outlist, i,
               TrailNameBranch(outlist, i,
                 ProcessIdBranch(outlist[i],
                   StatusBranch(outlist[i],
                     OpenProcess(outlist[i], st)))))))

RECURSIVE DetailScan(_, _, _, _)
DetailScan(outlist, i, parse_end, st) ==
    IF st.err \/ i >= parse_end THEN st
    ELSE DetailScan(outlist, i + 1, parse_end, DetailLine(outlist, i, st))

\* a marker that is not found counts as an empty window
DetailPassLenient(outlist, st) ==
    LET parse_start == Index(outlist, InfoStart)
        parse_end == Index(outlist, InfoEnd)
    IN  IF parse_start # 0 /\ parse_end > parse_start
        THEN DetailScan(outlist, parse_start, parse_end, st)
        ELSE st

\* the first try block: the pass over the "info *" window
DetailPass(outlist, st) ==
    LET parse_start == Index(outlist, InfoStart)
        parse_end == Index(outlist, InfoEnd)
    IN  IF parse_start = 0 \/ parse_end = 0 THEN Raise(st)
        ELSE IF parse_end > parse_start
        THEN DetailScan(outlist, parse_start, parse_end, st)
        ELSE st

\* one line of the "info all" window where a daemon's record is built from the
\* trail locals as the detail pass left them
SummaryLineCarried(outlist, i, st) ==
    LET tok == outlist[i]
    IN  IF Len(tok) = 0 THEN Raise(st)
        ELSE IF tok[1] \notin DaemonNames THEN st
        ELSE LET st1 == [st EXCEPT !.process_name = tok[1],
                                   !.process_list = Append(st.process_list, tok[1]),
                                   !.process_pid = "-1",
                                   !.process_dict =
                                       DictPut(st.process_dict, tok[1],
                                               ProcessEntry(st.process_trail,
                                                            st.process_trail_type,
                                                            st.process_seq, st.process_rba,
                                                            st.process_scn, "-1"))]
             IN  IF Len(tok) < 2 THEN Raise(st1)
                 ELSE IF tok[2] # ""
                 THEN [st1 EXCEPT !.status_dict = DictPut(st1.status_dict, tok[1], tok[2])]
                 ELSE st1

\* one line of the "info all" window
SummaryLine(outlist, i, st) ==
    LET tok == outlist[i]
    IN  IF Len(tok) = 0 THEN Raise(st)
        ELSE IF tok[1] \notin DaemonNames THEN st
        ELSE LET st1 == [st EXCEPT !.process_name = tok[1],
                                   !.process_list = Append(st.process_list, tok[1]),
                                   !.process_trail = "NONE",
                                   !.process_seq = "0",
                                   !.process_rba = "0",
                                   !.process_trail_type = "NONE",
                                   !.process_scn = "0",
                                   !.process_pid = "-1",
                                   !.process_dict =
                                       DictPut(st.process_dict, tok[1],
                                               ProcessEntry("NONE", "NONE", "0", "0", "0", "-1"))]
             IN  IF Len(tok) < 2 THEN Raise(st1)
                 ELSE IF tok[2] # ""
                 THEN [st1 EXCEPT !.status_dict = DictPut(st1.status_dict, tok[1], tok[2])]
                 ELSE st1

RECURSIVE SummaryScan(_, _, _, _)
SummaryScan(outlist, i, parse_end, st) ==
    IF st.err \/ i >= parse_end THEN st
    ELSE SummaryScan(outlist, i + 1, parse_end, SummaryLine(outlist, i, st))

\* the second try block: the pass over the "info all" window
SummaryPass(outlist, st) ==
    LET parse_start == Index(outlist, InfoAllStart)
        parse_end == Index(outlist, InfoAllEnd)
    IN  IF parse_start = 0 \/ parse_end = 0 THEN Raise(st)
        ELSE IF parse_end > parse_start
        THEN SummaryScan(outlist, parse_start, parse_end, st)
        ELSE st

\* for key in status_dict: one status line each
StatusLines(status_dict) ==
    LET ks == Keys(status_dict)
    IN  [n \in 1..Len(ks) |-> ProcessLine(ks[n], "status", status_dict[ks[n]])]

\* whether the HH:MM:SS arithmetic on a checkpoint_dict value raises
ChkptOk(v) ==
    LET parts == StrSplit(v, ":")
    IN  Len(parts) >= 3 /\ IntOk(parts[1]) /\ IntOk(parts[2]) /\ IntOk(parts[3])

\* int(h)*60*60 + int(m)*60 + int(s)
ChkptSeconds(v) ==
    LET parts == StrSplit(v, ":")
    IN  IntOf(parts[1]) * 60 * 60 + IntOf(parts[2]) * 60 + IntOf(parts[3])

\* for key in checkpoint_dict: one chkptlag line each
ChkptLines(checkpoint_dict) ==
    LET ks == Keys(checkpoint_dict)
    IN  [n \in 1..Len(ks) |->
            ProcessLine(ks[n], "chkptlag", ToString(ChkptSeconds(checkpoint_dict[ks[n]])))]

\* the five trail lines of one record
TrailLinesOf(key, entry) ==
    << ProcessLine(key, "trail_name", entry[1]),
       ProcessLine(key, "trail_type", entry[2]),
       ProcessLine(key, "seq", entry[3]),
       ProcessLine(key, "rba", entry[4]),
       ProcessLine(key, "scn", entry[5]) >>

RECURSIVE TrailLinesFrom(_, _)
TrailLinesFrom(ks, process_dict) ==
    IF Len(ks) = 0 THEN <<>>
    ELSE TrailLinesOf(Head(ks), process_dict[Head(ks)])
         \o TrailLinesFrom(Tail(ks), process_dict)

\* for key in process_dict: trail_name, trail_type, seq, rba, scn
TrailLines(process_dict) == TrailLinesFrom(Keys(process_dict), process_dict)

\* the discovery line: zbx_discovery_key, the timestamp and the JSON document
\* {"data":[ {"{#OGG_PROCESS}":"<name>"}, ... ]}, kept as the list of its names
DiscoveryLine(process_list) ==
    [kind |-> "discovery", item |-> "ogg.process.discovery", name |-> "", key |-> "",
     ts |-> utc_string, value |-> "", data |-> process_list]

\* the second try block follows the first unless that one ended the run
SummaryAfter(outlist, d) == IF d.err THEN d ELSE SummaryPass(outlist, d)

\* the three loops that fill ogg_list; the arithmetic of the second is outside
\* every try block
EmitInfoLines(s) ==
    IF s.err THEN s
    ELSE IF \E k \in DOMAIN s.checkpoint_dict : ~ChkptOk(s.checkpoint_dict[k])
    THEN Raise(s)
    ELSE [s EXCEPT !.ogg_list = s.ogg_list \o StatusLines(s.status_dict)
                                \o ChkptLines(s.checkpoint_dict)
                                \o TrailLines(s.process_dict)]

\* the whole method: what it leaves in self, and whether it ended the run
InfoSection(outlist, ogg_list, process_dict) ==
    EmitInfoLines(SummaryAfter(outlist,
        DetailPass(outlist, DetailLocals(ogg_list, process_dict))))

(***************************************************************************)
(* parse_output_getlag_section                                             *)
(***************************************************************************)
\* the 'Last record lag ' branch writes the item with a blank before the bracket
LastRecordLagLine(name, value) ==
    [kind |-> "process", item |-> "ogg.process [", name |-> name, key |-> "lag",
     ts |-> utc_string, value |-> value, data |-> <<>>]

\* phrase in line at a position other than the line's first character
ContainsAfterStart(tok, phrase) ==
    \E i \in 1..(Len(tok) - Len(phrase)) :
        \A j \in 1..Len(phrase) : tok[i + j] = phrase[j]

\* a phrase that ends in a blank: another word follows it
ContainsThenMore(tok, phrase) ==
    \E i \in 0..(Len(tok) - Len(phrase) - 1) :
        \A j \in 1..Len(phrase) : tok[i + j] = phrase[j]

\* one line of the getlag window where process_name keeps the first process
\* a sending line named
GetlagLineFirstNamed(outlist, i, st) ==
    LET tok == outlist[i]
    IN  IF Contains(LowerTokens(tok), <<"sending", "getlag", "request", "to">>)
        THEN IF Len(tok) < 6 THEN Raise(st)
             ELSE LET st1 == IF st.process_name = ""
                             THEN [st EXCEPT !.process_name = tok[6]] ELSE st
                      nxt == outlist[i + 1]
                  IN  IF ContainsThenMore(nxt, <<"Last", "record", "lag">>)
                      THEN IF Len(nxt) < 4 THEN Raise(st1)
                           ELSE [st1 EXCEPT !.ogg_list = Append(st1.ogg_list,
                                    LastRecordLagLine(tok[6],
                                        StrRemove(StrRemove(nxt[4], ","), ".")))]
                      ELSE IF Contains(nxt, <<"No", "records", "yet", "processed">>)
                      THEN [st1 EXCEPT !.ogg_list = Append(st1.ogg_list,
                                    ProcessLine(tok[6], "lag", "0"))]
                      ELSE st1
        ELSE IF ContainsAfterStart(tok, <<"not", "currently", "running">>) THEN st
        ELSE IF Contains(tok, <<"Average", "Lag:">>)
        THEN IF Len(tok) < 3 THEN Raise(st)
             ELSE [st EXCEPT !.ogg_list = Append(st.ogg_list,
                      ProcessLine(st.process_name, "lag",
                                  StrRemove(StrRemove(tok[3], ","), ".")))]
        ELSE st

\* one line of the getlag window where only the line after a sending line
\* decides a lag: an 'Average Lag:' line adds nothing
GetlagLineNextOnly(outlist, i, st) ==
    LET tok == outlist[i]
    IN  IF Contains(LowerTokens(tok), <<"sending", "getlag", "request", "to">>)
        THEN IF Len(tok) < 6 THEN Raise(st)
             ELSE LET st1 == [st EXCEPT !.process_name = tok[6]]
                      nxt == outlist[i + 1]
                  IN  IF ContainsThenMore(nxt, <<"Last", "record", "lag">>)
                      THEN IF Len(nxt) < 4 THEN Raise(st1)
                           ELSE [st1 EXCEPT !.ogg_list = Append(st1.ogg_list,
                                    LastRecordLagLine(tok[6],
                                        StrRemove(StrRemove(nxt[4], ","), ".")))]
                      ELSE IF Contains(nxt, <<"No", "records", "yet", "processed">>)
                      THEN [st1 EXCEPT !.ogg_list = Append(st1.ogg_list,
                                    ProcessLine(tok[6], "lag", "0"))]
                      ELSE st1
        ELSE st

\* one line of the getlag window; st = [process_name, ogg_list, err]
GetlagLine(outlist, i, st) ==
    LET tok == outlist[i]
    IN  IF Contains(LowerTokens(tok), <<"sending", "getlag", "request", "to">>)
        THEN IF Len(tok) < 6 THEN Raise(st)
             ELSE LET st1 == [st EXCEPT !.process_name = tok[6]]
                      nxt == outlist[i + 1]
                  IN  IF ContainsThenMore(nxt, <<"Last", "record", "lag">>)
                      THEN IF Len(nxt) < 4 THEN Raise(st1)
                           ELSE [st1 EXCEPT !.ogg_list = Append(st1.ogg_list,
                                    LastRecordLagLine(tok[6],
                                        StrRemove(StrRemove(nxt[4], ","), ".")))]
                      ELSE IF Contains(nxt, <<"No", "records", "yet", "processed">>)
                      THEN [st1 EXCEPT !.ogg_list = Append(st1.ogg_list,
                                    ProcessLine(tok[6], "lag", "0"))]
                      ELSE st1
        ELSE IF ContainsAfterStart(tok, <<"not", "currently", "running">>) THEN st
        ELSE IF Contains(tok, <<"Average", "Lag:">>)
        THEN IF Len(tok) < 3 THEN Raise(st)
             ELSE [st EXCEPT !.ogg_list = Append(st.ogg_list,
                      ProcessLine(st.process_name, "lag",
                                  StrRemove(StrRemove(tok[3], ","), ".")))]
        ELSE st

RECURSIVE GetlagScan(_, _, _, _)
GetlagScan(outlist, i, parse_end, st) ==
    IF st.err \/ i >= parse_end THEN st
    ELSE GetlagScan(outlist, i + 1, parse_end, GetlagLine(outlist, i, st))

\* the lines of the section are collected in a list of their own, which an
\* exception leaves behind
GetlagSectionDiscard(outlist, ogg_list) ==
    LET parse_start == Index(outlist, GetlagStart)
        parse_end == Index(outlist, GetlagEnd)
        st0 == [process_name |-> "", ogg_list |-> ogg_list, err |-> FALSE]
    IN  IF parse_start = 0 \/ parse_end = 0 \/ parse_end <= parse_start THEN st0
        ELSE IF GetlagScan(outlist, parse_start, parse_end, st0).err THEN st0
        ELSE GetlagScan(outlist, parse_start, parse_end, st0)

\* the whole method: the list it leaves in self.ogg_zabbix_list.  Every
\* exception of the try block is caught and logged, so err only ends the loop.
GetlagSection(outlist, ogg_list) ==
    LET parse_start == Index(outlist, GetlagStart)
        parse_end == Index(outlist, GetlagEnd)
        st0 == [process_name |-> "", ogg_list |-> ogg_list, err |-> FALSE]
    IN  IF parse_start = 0 \/ parse_end = 0 THEN st0
        ELSE IF parse_end > parse_start
        THEN GetlagScan(outlist, parse_start, parse_end, st0)
        ELSE st0

(***************************************************************************)
(* parse_output_manager_identify                                           *)
(***************************************************************************)
Letters == "abcdefghijklmnopqrstuvwxyz"
Capitals == "ABCDEFGHIJKLMNOPQRSTUVWXYZ"

UpperChar(c) ==
    LET p == StrFind(Letters, c)
    IN  IF p = 0 THEN c ELSE CharAt(Capitals, p)

RECURSIVE StrUpper(_)
StrUpper(s) ==
    IF Len(s) = 0 THEN ""
    ELSE UpperChar(CharAt(s, 1)) \o StrUpper(SubSeq(s, 2, Len(s)))

\* \w of a regular expression
IsWordChar(c) ==
    StrFind(Letters, c) > 0 \/ StrFind(Capitals, c) > 0
    \/ DigitValue(c) >= 0 \/ c = "_"

RECURSIVE StripNonWord(_)
\* re.sub('\W+', '', s)
StripNonWord(s) ==
    IF Len(s) = 0 THEN ""
    ELSE (IF IsWordChar(CharAt(s, 1)) THEN CharAt(s, 1) ELSE "")
         \o StripNonWord(SubSeq(s, 2, Len(s)))

RECURSIVE LeadingDigits(_)
\* the group ([0-9]*) of a match that starts at s
LeadingDigits(s) ==
    IF Len(s) = 0 \/ DigitValue(CharAt(s, 1)) < 0 THEN ""
    ELSE CharAt(s, 1) \o LeadingDigits(SubSeq(s, 2, Len(s)))

\* re.search('Process ID ([0-9]*)', line): the position of the word after the
\* first "Process ID ", 0 when nothing matches
ProcessIdAt(tok) ==
    IF ContainsThenMore(tok, <<"Process", "ID">>)
    THEN 2 + CHOOSE i \in 1..(Len(tok) - 2) :
                /\ tok[i] = "Process" /\ tok[i + 1] = "ID"
                /\ \A j \in 1..(i - 1) : ~(tok[j] = "Process" /\ tok[j + 1] = "ID")
    ELSE 0

\* splitted_line[5][rfind('.')+1 : rfind(',')]
PortOf(word) ==
    LET a == StrRFind(word, ".")
        c == StrRFind(word, ",")
        b == IF c = 0 THEN Len(word) - 1 ELSE c - 1
    IN  StrSlice(word, a, b)

RECURSIVE ManagerScan(_, _, _, _)
\* the loop over the "info mgr" window; st = [port_number, process_dict, err]
ManagerScan(outlist, i, parse_end, st) ==
    IF i >= parse_end THEN st
    ELSE LET tok == outlist[i]
         IN  IF Len(tok) > 0 /\ Contains(tok, <<"Manager", "is", "running">>)
             THEN IF Len(tok) < 6 \/ ProcessIdAt(tok) = 0 THEN Raise(st)
                  ELSE [st EXCEPT !.port_number = PortOf(tok[6]),
                                  !.process_dict =
                                      DictPut(st.process_dict, "MANAGER",
                                          ProcessEntry("NONE", "NONE", "0", "0", "0",
                                              LeadingDigits(tok[ProcessIdAt(tok)])))]
             ELSE ManagerScan(outlist, i + 1, parse_end, st)

\* the empty port goes into the identifier
RequirePortAny(st) == st

\* if port_number == '': sys.exit(1)
RequirePort(st) == IF ~st.err /\ st.port_number = "" THEN Raise(st) ELSE st

\* the scan of the classic branch, up to the test of port_number
ManagerPort(outlist, process_dict) ==
    LET parse_start == Index(outlist, ManagerStart)
        parse_end == Index(outlist, ManagerEnd)
        st0 == [port_number |-> "", process_dict |-> process_dict, err |-> FALSE]
    IN  RequirePort(IF parse_start = 0 \/ parse_end = 0 THEN Raise(st0)
                    ELSE IF parse_end > parse_start
                    THEN ManagerScan(outlist, parse_start, parse_end, st0)
                    ELSE st0)

\* platform.node().split('.', 1)[0]
short_hostname == "srv1"

\* platform.system()
platform_type == "Linux"

\* 'OGG_' + self.short_hostname.upper() + '_' + str(port_number)
HostnameForm(port_number) == "OGG_" \o StrUpper(short_hostname) \o "_" \o port_number

\* the instance tag taken as it was read
InstanceTagFormRaw(output, port_number) == "OGG_" \o output \o "_" \o port_number

\* 'OGG_' + re.sub('\W+', '', output) + '_' + str(port_number)
InstanceTagForm(output, port_number) == "OGG_" \o StripNonWord(output) \o "_" \o port_number

\* what grep "COMMENT OGG_INSTANCE_ID=" mgr.prm | awk prints
TagOutputs == {"", "My Replication!"}

\* the identifier for the classic architecture, given the lookup's output
ClassicHostname(use_hostname, output, port_number) ==
    IF use_hostname = "NO"
    THEN IF output # "" THEN InstanceTagForm(output, port_number)
         ELSE HostnameForm(port_number)
    ELSE HostnameForm(port_number)

(***************************************************************************)
(* processes_memory                                                        *)
(***************************************************************************)
RECURSIVE PidStringFrom(_, _)
PidStringFrom(ks, process_dict) ==
    IF Len(ks) = 0 THEN ""
    ELSE (IF process_dict[Head(ks)][6] \notin {"-l", "0"}
          THEN "," \o process_dict[Head(ks)][6] ELSE "")
         \o PidStringFrom(Tail(ks), process_dict)

\* the comma-joined PID list given to ps
PidString(process_dict) ==
    LET str == PidStringFrom(Keys(process_dict), process_dict)
    IN  StrSlice(str, 1, Len(str))

\* lines of the OS listing: pid and size in bytes
ListingLines == { <<"1234", "4096">>, <<"4321", "8192">> }

\* one line of the listing joined into the records with that PID
JoinListingLine(line, process_dict_temp, process_dict) ==
    [key \in DOMAIN process_dict |->
        IF process_dict_temp[key][6] = line[1]
        THEN SubSeq(process_dict[key], 1, 6) \o <<line[2]>>
        ELSE process_dict[key]]

RECURSIVE JoinListing(_, _, _)
JoinListing(listing, process_dict_temp, process_dict) ==
    IF Len(listing) = 0 THEN process_dict
    ELSE JoinListing(Tail(listing), process_dict_temp,
                     JoinListingLine(Head(listing), process_dict_temp, process_dict))

\* records still six long get the memory '0'
DefaultMemory(process_dict) ==
    [key \in DOMAIN process_dict |->
        IF Len(process_dict[key]) = 6 THEN process_dict[key] \o <<"0">>
        ELSE process_dict[key]]

\* memory lines only for the records the listing gave a size
MemoryLinesFound(process_dict) ==
    LET ks == Keys(process_dict)
    IN  SelectSeq([n \in 1..Len(ks) |-> ProcessLine(ks[n], "memory", process_dict[ks[n]][7])],
                  LAMBDA line : line.value # "0")

\* for key in process_dict: one memory line each
MemoryLines(process_dict) ==
    LET ks == Keys(process_dict)
    IN  [n \in 1..Len(ks) |-> ProcessLine(ks[n], "memory", process_dict[ks[n]][7])]

RECURSIVE MemorySumOncePerPid(_, _)
\* the total with one term per PID: a record whose PID a later record shares adds nothing
MemorySumOncePerPid(ks, process_dict) ==
    IF Len(ks) = 0 THEN 0
    ELSE (IF \E n \in 2..Len(ks) : process_dict[ks[n]][6] = process_dict[Head(ks)][6]
          THEN 0 ELSE IntOf(process_dict[Head(ks)][7]))
         + MemorySumOncePerPid(Tail(ks), process_dict)

RECURSIVE MemorySum(_, _)
\* what the loop adds to ogg_total_memory: int(process_dict[key][6]) for every key
MemorySum(ks, process_dict) ==
    IF Len(ks) = 0 THEN 0
    ELSE IntOf(process_dict[Head(ks)][7]) + MemorySum(Tail(ks), process_dict)

\* whether the loops over the listing and the registry raise
MemoryRaises(listing, process_dict) ==
    \/ \E n \in 1..Len(listing) : Len(listing[n]) < 2
    \/ LET joined == DefaultMemory(JoinListing(listing, process_dict, process_dict))
       IN  \E key \in DOMAIN joined : ~IntOk(joined[key][7])

(***************************************************************************)
(* send_to_zabbix                                                          *)
(***************************************************************************)
\* self.environment
environment == "test"

\* VERSION
VERSION == "0.4.2"

InstanceLine(key, value) ==
    [kind |-> "instance", item |-> "ogg." \o key, name |-> "", key |-> key,
     ts |-> utc_string, value |-> value, data |-> <<>>]

\* self.zbx_hostname + ' ' + line
Addressed(line) == [host |-> zbx_hostname, line |-> line]

\* the six instance-level lines
InstanceLines ==
    << InstanceLine("environment_id", environment),
       InstanceLine("memory_usage", ToString(ogg_total_memory)),
       InstanceLine("version", ogg_version),
       InstanceLine("database", ogg_database),
       InstanceLine("platform", platform_type),
       InstanceLine("script_version", VERSION) >>

\* the instance-level lines put before the lines of ogg_zabbix_list
ZbxDataInstanceFirst ==
    LET body == <<json_string>> \o InstanceLines \o ogg_zabbix_list
    IN  [n \in 1..Len(body) |-> Addressed(body[n])]

\* zbx_data as the method builds it
ZbxData ==
    LET body == <<json_string>> \o ogg_zabbix_list \o InstanceLines
    IN  [n \in 1..Len(body) |-> Addressed(body[n])]

(***************************************************************************)
(* main: the poll cycle of one invocation, one action per method.          *)
(***************************************************************************)
\* self.json_string before parse_output_info_section sets it
NoJson ==
    [kind |-> "none", item |-> "", name |-> "", key |-> "", ts |-> "",
     value |-> "", data |-> <<>>]

InitPoll ==
    /\ pc = "read_inifile"
    /\ exit_code = -1
    /\ failed = ""
    /\ now = 1000
    /\ utc_string = ""
    /\ use_hostname_for_zabbix = "YES"
    /\ ogg_architecture = "classic"
    /\ sm_port = ""
    /\ ogg_script_outlist = <<>>
    /\ ogg_version = ""
    /\ ogg_database = ""
    /\ process_dictionary = EmptyDict
    /\ ogg_zabbix_list = <<>>
    /\ json_string = NoJson
    /\ zbx_hostname = ""
    /\ mgr_prm_output = ""
    /\ ogg_total_memory = 0
    /\ ps_output = [raised |-> FALSE, outlist |-> <<>>]
    /\ zbx_data = <<>>
    /\ sender_runs = 0

\* sys.exit(1), or an exception nobody catches, inside method m
Fatal(m) ==
    /\ pc' = "exit"
    /\ exit_code' = 1
    /\ failed' = m

\* the method returned: main calls the next one
Goto(next) ==
    /\ pc' = next
    /\ UNCHANGED <<exit_code, failed>>

Tick == now' = now + 1

read_inifile ==
    /\ pc = "read_inifile"
    /\ Tick
    /\ \E v \in {"YES", "NO"} : use_hostname_for_zabbix' = v
    /\ Goto("get_architecture_and_console")
    /\ UNCHANGED <<utc_string, ogg_architecture, sm_port, ogg_script_outlist,
                   ogg_version, ogg_database, process_dictionary, ogg_zabbix_list,
                   json_string, zbx_hostname, ogg_total_memory, ps_output,
                   zbx_data, sender_runs>>
    /\ UNCHANGED mgr_prm_output
    /\ UNCHANGED lockVars

get_architecture_and_console ==
    /\ pc = "get_architecture_and_console"
    /\ Tick
    /\ \/ /\ ogg_architecture' = "classic"
          /\ sm_port' = sm_port
          /\ Goto("aquire_single_run_mutex")
       \/ /\ ogg_architecture' = "microservices"
          /\ sm_port' = "9011"
          /\ Goto("aquire_single_run_mutex")
       \/ /\ UNCHANGED <<ogg_architecture, sm_port>>
          /\ Fatal("get_architecture_and_console")
    /\ UNCHANGED <<utc_string, use_hostname_for_zabbix, ogg_script_outlist,
                   ogg_version, ogg_database, process_dictionary, ogg_zabbix_list,
                   json_string, zbx_hostname, ogg_total_memory, ps_output,
                   zbx_data, sender_runs>>
    /\ UNCHANGED mgr_prm_output
    /\ UNCHANGED lockVars

\* seen from one invocation: the lock is obtained, or some other holds it
aquire_single_run_mutex ==
    /\ pc = "aquire_single_run_mutex"
    /\ Tick
    /\ \/ Goto("set_unix_timestamp")
       \/ Fatal("aquire_single_run_mutex")
    /\ UNCHANGED <<utc_string, use_hostname_for_zabbix, ogg_architecture, sm_port,
                   ogg_script_outlist, ogg_version, ogg_database,
                   process_dictionary, ogg_zabbix_list, json_string, zbx_hostname,
                   ogg_total_memory, ps_output, zbx_data, sender_runs>>
    /\ UNCHANGED mgr_prm_output
    /\ UNCHANGED lockVars

set_unix_timestamp ==
    /\ pc = "set_unix_timestamp"
    /\ Tick
    /\ utc_string' = ToString(now)
    /\ Goto("get_ogg_script_output")
    /\ UNCHANGED <<use_hostname_for_zabbix, ogg_architecture, sm_port,
                   ogg_script_outlist, ogg_version, ogg_database,
                   process_dictionary, ogg_zabbix_list, json_string, zbx_hostname,
                   ogg_total_memory, ps_output, zbx_data, sender_runs>>
    /\ UNCHANGED mgr_prm_output
    /\ UNCHANGED lockVars

\* the reports the console may return: at most MaxLines content lines, one
\* defective pair of markers counting as a line
ReportsOfSize(np, nd, na, nl, nm) ==
    { Report(pre, det, all, lag, mgr, "", "ok") :
        pre \in [1..np -> PreambleLines], det \in [1..nd -> DetailLines],
        all \in [1..na -> SummaryLines], lag \in [1..nl -> GetlagLines],
        mgr \in [1..nm -> ManagerLines] }

DefectiveReportsOfSize(np, nd, na, nl, nm) ==
    { Report(x[1], x[2], x[3], x[4], x[5], bad, defect) :
        x \in [1..np -> PreambleLines] \X [1..nd -> DetailLines]
              \X [1..na -> SummaryLines] \X [1..nl -> GetlagLines]
              \X [1..nm -> ManagerLines],
        bad \in SectionNames, defect \in MarkerDefects }

get_ogg_script_output ==
    /\ pc = "get_ogg_script_output"
    /\ Tick
    /\ \/ /\ \E np \in 0..MaxLines, nd \in 0..MaxLines, na \in 0..MaxLines,
                nl \in 0..MaxLines, nm \in 0..1 :
                \/ /\ np + nd + na + nl + nm <= MaxLines
                   /\ ogg_script_outlist' \in ReportsOfSize(np, nd, na, nl, nm)
                \/ /\ np + nd + na + nl + nm + 1 <= MaxLines
                   /\ ogg_script_outlist' \in DefectiveReportsOfSize(np, nd, na, nl, nm)
          /\ Goto("parse_output_get_static_settings")
       \/ /\ UNCHANGED ogg_script_outlist
          /\ Fatal("get_ogg_script_output")
    /\ UNCHANGED <<utc_string, use_hostname_for_zabbix, ogg_architecture, sm_port,
                   ogg_version, ogg_database, process_dictionary, ogg_zabbix_list,
                   json_string, zbx_hostname, ogg_total_memory, ps_output,
                   zbx_data, sender_runs>>
    /\ UNCHANGED mgr_prm_output
    /\ UNCHANGED lockVars

StaticResult(r) ==
    /\ ogg_version' = r.ver
    /\ ogg_database' = r.db
    /\ IF r.err THEN Fatal("parse_output_get_static_settings")
       ELSE Goto("parse_output_info_section")

parse_output_get_static_settings ==
    /\ pc = "parse_output_get_static_settings"
    /\ Tick
    /\ StaticResult(StaticSettings(ogg_script_outlist))
    /\ UNCHANGED <<utc_string, use_hostname_for_zabbix, ogg_architecture, sm_port,
                   ogg_script_outlist, process_dictionary, ogg_zabbix_list,
                   json_string, zbx_hostname, ogg_total_memory, ps_output,
                   zbx_data, sender_runs>>
    /\ UNCHANGED mgr_prm_output
    /\ UNCHANGED lockVars

\* the except branches log the error and return instead of calling sys.exit(1)
InfoResultNoExit(r) ==
    /\ pc' = "parse_output_getlag_section"
    /\ failed' = IF r.err THEN "parse_output_info_section" ELSE failed
    /\ UNCHANGED exit_code
    /\ process_dictionary' = r.process_dict
    /\ ogg_zabbix_list' = r.ogg_list
    /\ json_string' = DiscoveryLine(r.process_list)

InfoResult(r) ==
    IF r.err
    THEN /\ Fatal("parse_output_info_section")
         /\ UNCHANGED <<process_dictionary, ogg_zabbix_list, json_string>>
    ELSE /\ Goto("parse_output_getlag_section")
         /\ process_dictionary' = r.process_dict
         /\ ogg_zabbix_list' = r.ogg_list
         /\ json_string' = DiscoveryLine(r.process_list)

parse_output_info_section ==
    /\ pc = "parse_output_info_section"
    /\ Tick
    /\ InfoResult(InfoSection(ogg_script_outlist, ogg_zabbix_list, process_dictionary))
    /\ UNCHANGED <<utc_string, use_hostname_for_zabbix, ogg_architecture, sm_port,
                   ogg_script_outlist, ogg_version, ogg_database, zbx_hostname,
                   ogg_total_memory, ps_output, zbx_data, sender_runs>>
    /\ UNCHANGED mgr_prm_output
    /\ UNCHANGED lockVars

parse_output_getlag_section ==
    /\ pc = "parse_output_getlag_section"
    /\ Tick
    /\ ogg_zabbix_list' = GetlagSection(ogg_script_outlist, ogg_zabbix_list).ogg_list
    /\ Goto("parse_output_manager_identify")
    /\ UNCHANGED <<utc_string, use_hostname_for_zabbix, ogg_architecture, sm_port,
                   ogg_script_outlist, ogg_version, ogg_database,
                   process_dictionary, json_string, zbx_hostname, ogg_total_memory,
                   ps_output, zbx_data, sender_runs>>
    /\ UNCHANGED mgr_prm_output
    /\ UNCHANGED lockVars

\* the classic branch after the scan: the lookup in mgr.prm runs only when
\* use_hostname_for_zabbix is NO, and ends the run when it raises
ClassicResult(r) ==
    IF r.err
    THEN /\ Fatal("parse_output_manager_identify")
         /\ UNCHANGED <<process_dictionary, zbx_hostname, mgr_prm_output>>
    ELSE /\ process_dictionary' = r.process_dict
         /\ IF use_hostname_for_zabbix = "NO"
            THEN \/ /\ \E output \in TagOutputs :
                          /\ mgr_prm_output' = output
                          /\ zbx_hostname' = ClassicHostname("NO", output, r.port_number)
                    /\ Goto("processes_memory")
                 \/ /\ UNCHANGED <<zbx_hostname, mgr_prm_output>>
                    /\ Fatal("parse_output_manager_identify")
            ELSE /\ zbx_hostname' = ClassicHostname(use_hostname_for_zabbix, "", r.port_number)
                 /\ Goto("processes_memory")
                 /\ UNCHANGED mgr_prm_output

parse_output_manager_identify ==
    /\ pc = "parse_output_manager_identify"
    /\ Tick
    /\ IF ogg_architecture = "classic"
       THEN ClassicResult(ManagerPort(ogg_script_outlist, process_dictionary))
       ELSE /\ zbx_hostname' = HostnameForm(sm_port)
            /\ Goto("processes_memory")
            /\ UNCHANGED <<process_dictionary, mgr_prm_output>>
    /\ UNCHANGED <<utc_string, use_hostname_for_zabbix, ogg_architecture, sm_port,
                   ogg_script_outlist, ogg_version, ogg_database, ogg_zabbix_list,
                   json_string, ogg_total_memory, ps_output, zbx_data, sender_runs>>
    /\ UNCHANGED lockVars

\* the last loop: one memory line per record, and the total
MemoryResult(joined) ==
    /\ process_dictionary' = joined
    /\ ogg_zabbix_list' = ogg_zabbix_list \o MemoryLines(joined)
    /\ ogg_total_memory' = ogg_total_memory + MemorySum(Keys(joined), joined)
    /\ Goto("send_to_zabbix")

\* get_shell_output raised, the error is logged and the records keep memory '0'
ShellOutputRaisedDefaults ==
    /\ ps_output' = [raised |-> TRUE, outlist |-> <<>>]
    /\ MemoryResult(DefaultMemory(process_dictionary))

\* get_shell_output raised: the except branch logs the error and calls sys.exit(1)
ShellOutputRaised ==
    /\ ps_output' = [raised |-> TRUE, outlist |-> <<>>]
    /\ Fatal("processes_memory")
    /\ UNCHANGED <<process_dictionary, ogg_zabbix_list, ogg_total_memory>>

processes_memory ==
    /\ pc = "processes_memory"
    /\ Tick
    /\ \/ \E n \in 0..MaxListing : \E listing \in [1..n -> ListingLines] :
            /\ ps_output' = [raised |-> FALSE, outlist |-> listing]
            /\ IF MemoryRaises(listing, process_dictionary)
               THEN /\ Fatal("processes_memory")
                    /\ UNCHANGED <<process_dictionary, ogg_zabbix_list, ogg_total_memory>>
               ELSE MemoryResult(DefaultMemory(JoinListing(listing, process_dictionary,
                                                           process_dictionary)))
       \/ ShellOutputRaised
    /\ UNCHANGED <<utc_string, use_hostname_for_zabbix, ogg_architecture, sm_port,
                   ogg_script_outlist, ogg_version, ogg_database, json_string,
                   zbx_hostname, zbx_data, sender_runs>>
    /\ UNCHANGED mgr_prm_output
    /\ UNCHANGED lockVars

send_to_zabbix ==
    /\ pc = "send_to_zabbix"
    /\ Tick
    /\ zbx_data' = ZbxData
    /\ sender_runs' = sender_runs + 1
    /\ Goto("export_json_for_cmdb")
    /\ UNCHANGED <<utc_string, use_hostname_for_zabbix, ogg_architecture, sm_port,
                   ogg_script_outlist, ogg_version, ogg_database,
                   process_dictionary, ogg_zabbix_list, json_string, zbx_hostname,
                   ogg_total_memory, ps_output>>
    /\ UNCHANGED mgr_prm_output
    /\ UNCHANGED lockVars

\* writes a file for the inventory; a failure is only logged
export_json_for_cmdb ==
    /\ pc = "export_json_for_cmdb"
    /\ Tick
    /\ Goto("cleanup")
    /\ UNCHANGED <<utc_string, use_hostname_for_zabbix, ogg_architecture, sm_port,
                   ogg_script_outlist, ogg_version, ogg_database,
                   process_dictionary, ogg_zabbix_list, json_string, zbx_hostname,
                   ogg_total_memory, ps_output, zbx_data, sender_runs>>
    /\ UNCHANGED mgr_prm_output
    /\ UNCHANGED lockVars

\* cleanup, then main's sys.exit(0); a failure to release the lock exits with 1
cleanup ==
    /\ pc = "cleanup"
    /\ Tick
    /\ \/ /\ pc' = "exit"
          /\ exit_code' = 0
          /\ UNCHANGED failed
       \/ Fatal("cleanup")
    /\ UNCHANGED <<utc_string, use_hostname_for_zabbix, ogg_architecture, sm_port,
                   ogg_script_outlist, ogg_version, ogg_database,
                   process_dictionary, ogg_zabbix_list, json_string, zbx_hostname,
                   ogg_total_memory, ps_output, zbx_data, sender_runs>>
    /\ UNCHANGED mgr_prm_output
    /\ UNCHANGED lockVars

(***************************************************************************)
(* The lock file, left alone by the poll-cycle specification.              *)
(***************************************************************************)
InitLockIdle ==
    /\ ipc = [p \in 1..NumInvocations |-> "idle"]
    /\ path_inode = 0
    /\ mutex = [p \in 1..NumInvocations |-> 0]
    /\ flock_holder = [i \in 1..NumInvocations |-> 0]
    /\ inodes = 0

Init == InitPoll /\ InitLockIdle

Next ==
    \/ read_inifile
    \/ get_architecture_and_console
    \/ aquire_single_run_mutex
    \/ set_unix_timestamp
    \/ get_ogg_script_output
    \/ parse_output_get_static_settings
    \/ parse_output_info_section
    \/ parse_output_getlag_section
    \/ parse_output_manager_identify
    \/ processes_memory
    \/ send_to_zabbix
    \/ export_json_for_cmdb
    \/ cleanup

Spec == Init /\ [][Next]_vars

(***************************************************************************)
(* The single-run lock under concurrent invocations with one OGG_HOME,     *)
(* hence one lock file path.  aquire_single_run_mutex is two system calls  *)
(* (open for writing, flock LOCK_EX | LOCK_NB) and cleanup three (flock    *)
(* LOCK_UN, close, os.remove); each is a step, and the steps of different  *)
(* invocations interleave freely.  open creates the file when the path     *)
(* names none; a flock is held per open file, on the inode it was opened   *)
(* on; os.remove unlinks whatever the path names at that moment.           *)
(***************************************************************************)
Invocations == 1..NumInvocations

InitLock ==
    /\ ipc = [p \in Invocations |-> "start"]
    /\ path_inode = 0
    /\ mutex = [p \in Invocations |-> 0]
    /\ flock_holder = [i \in Invocations |-> 0]
    /\ inodes = 0

\* the process ends: its descriptor is closed, which drops a flock it holds
ProcessExit(p) ==
    /\ mutex' = [mutex EXCEPT ![p] = 0]
    /\ flock_holder' = [i \in Invocations |-> IF flock_holder[i] = p THEN 0 ELSE flock_holder[i]]

\* self.mutex = open(self.lock_file, 'w')
open_lock_file(p) ==
    /\ ipc[p] = "start"
    /\ IF path_inode = 0
       THEN /\ inodes' = inodes + 1
            /\ path_inode' = inodes + 1
            /\ mutex' = [mutex EXCEPT ![p] = inodes + 1]
       ELSE /\ mutex' = [mutex EXCEPT ![p] = path_inode]
            /\ UNCHANGED <<inodes, path_inode>>
    /\ ipc' = [ipc EXCEPT ![p] = "flock"]
    /\ UNCHANGED flock_holder
    /\ UNCHANGED pollVars

\* fcntl.flock(self.mutex, LOCK_EX | LOCK_NB); on failure sys.exit(1)
flock_ex_nb(p) ==
    /\ ipc[p] = "flock"
    /\ IF flock_holder[mutex[p]] = 0
       THEN /\ flock_holder' = [flock_holder EXCEPT ![mutex[p]] = p]
            /\ ipc' = [ipc EXCEPT ![p] = "poll"]
            /\ UNCHANGED mutex
       ELSE /\ ProcessExit(p)
            /\ ipc' = [ipc EXCEPT ![p] = "exited"]
    /\ UNCHANGED <<path_inode, inodes>>
    /\ UNCHANGED pollVars

\* the poll cycle between the two methods: it reaches cleanup, or a fatal
\* error ends the process without cleanup
poll_cycle(p) ==
    /\ ipc[p] = "poll"
    /\ \/ /\ ipc' = [ipc EXCEPT ![p] = "unlock"]
          /\ UNCHANGED <<mutex, flock_holder>>
       \/ /\ ipc' = [ipc EXCEPT ![p] = "exited"]
          /\ ProcessExit(p)
    /\ UNCHANGED <<path_inode, inodes>>
    /\ UNCHANGED pollVars

\* fcntl.flock(self.mutex, fcntl.LOCK_UN)
flock_un(p) ==
    /\ ipc[p] = "unlock"
    /\ flock_holder' = [i \in Invocations |-> IF flock_holder[i] = p THEN 0 ELSE flock_holder[i]]
    /\ ipc' = [ipc EXCEPT ![p] = "close"]
    /\ UNCHANGED <<mutex, path_inode, inodes>>
    /\ UNCHANGED pollVars

\* self.mutex.close()
close_lock_file(p) ==
    /\ ipc[p] = "close"
    /\ mutex' = [mutex EXCEPT ![p] = 0]
    /\ ipc' = [ipc EXCEPT ![p] = "remove"]
    /\ UNCHANGED <<flock_holder, path_inode, inodes>>
    /\ UNCHANGED pollVars

\* os.remove(self.lock_file); OSError when the path names nothing: sys.exit(1)
remove_lock_file(p) ==
    /\ ipc[p] = "remove"
    /\ IF path_inode = 0
       THEN /\ ipc' = [ipc EXCEPT ![p] = "exited"]
            /\ UNCHANGED path_inode
       ELSE /\ ipc' = [ipc EXCEPT ![p] = "done"]
            /\ path_inode' = 0
    /\ UNCHANGED <<mutex, flock_holder, inodes>>
    /\ UNCHANGED pollVars

NextMutex ==
    \/ \E p \in Invocations : open_lock_file(p)
    \/ \E p \in Invocations : flock_ex_nb(p)
    \/ \E p \in Invocations : poll_cycle(p)
    \/ \E p \in Invocations : flock_un(p)
    \/ \E p \in Invocations : close_lock_file(p)
    \/ \E p \in Invocations : remove_lock_file(p)

InitMutex == InitPoll /\ InitLock

SpecMutex == InitMutex /\ [][NextMutex]_vars

\* between a successful lock acquisition and the end of its cleanup
InLockedSpan(p) == ipc[p] \in {"poll", "unlock", "close", "remove"}



(***************************************************************************)
(* Properties of the poll cycle (specification Spec) and of the lock       *)
(* (specification SpecMutex).                                              *)
(***************************************************************************)
\* main has called send_to_zabbix
Sent == sender_runs > 0

\* the lines of zbx_data without their host
SentLines == [n \in DOMAIN zbx_data |-> zbx_data[n].line]

\* C1: when a stage before transmission ended the run with a fatal error,
\* send_to_zabbix was not invoked, no line was handed to the sender, and the
\* run is over with a non-zero status.
C1_FatalBeforeSendNothingSent ==
    failed \notin {"", "cleanup"} =>
        /\ sender_runs = 0
        /\ zbx_data = <<>>
        /\ pc = "exit"
        /\ exit_code # 0
        /\ exit_code # -1

\* a run that parsed processes and then failed in the OS memory query
C1_Witness ==
    /\ failed = "processes_memory"
    /\ DOMAIN process_dictionary # {}
    /\ Len(ogg_zabbix_list) > 0
    /\ json_string.kind = "discovery"

\* C2: at most one invocation at a time is between a successful lock
\* acquisition and the end of its cleanup.
C2_SingleRun ==
    Cardinality({p \in Invocations : InLockedSpan(p)}) <= 1

\* C3: every line handed to the sender carries self.utc_string, and
\* self.utc_string is written by set_unix_timestamp only, which main calls
\* once, before the report is obtained.
C3_OneTimestamp ==
    /\ [](Sent => \A n \in DOMAIN zbx_data : zbx_data[n].line.ts = utc_string)
    /\ [][utc_string' # utc_string =>
             pc = "set_unix_timestamp" /\ ogg_script_outlist = <<>>]_vars

\* lines of every kind were sent some seconds after the timestamp was taken
C3_Witness ==
    /\ Sent
    /\ \E n \in DOMAIN zbx_data : zbx_data[n].line.kind = "discovery"
    /\ \E n \in DOMAIN zbx_data : zbx_data[n].line.key = "status"
    /\ \E n \in DOMAIN zbx_data : zbx_data[n].line.key = "lag"
    /\ \E n \in DOMAIN zbx_data : zbx_data[n].line.key = "memory"
    /\ \E n \in DOMAIN zbx_data : zbx_data[n].line.kind = "instance"
    /\ utc_string # ""
    /\ utc_string # ToString(now)

\* the place of a line's group in the order send_to_zabbix promises
GroupOf(line) ==
    CASE line.kind = "discovery" -> 0
      [] line.kind = "process" /\ line.key = "status" -> 1
      [] line.kind = "process" /\ line.key = "chkptlag" -> 2
      [] line.kind = "process"
         /\ line.key \in {"trail_name", "trail_type", "seq", "rba", "scn"} -> 3
      [] line.kind = "process" /\ line.key = "lag" -> 4
      [] line.kind = "process" /\ line.key = "memory" -> 5
      [] line.kind = "instance" -> 6
      [] OTHER -> 7

InstanceKeys ==
    <<"environment_id", "memory_usage", "version", "database", "platform",
      "script_version">>

\* C4: zbx_data is the single discovery line, then the status lines, the
\* checkpoint-lag lines, the trail lines and the lag lines, then the memory
\* lines, and last the six instance-level lines in their fixed order.
C4_SendOrder ==
    Sent =>
        /\ Len(SentLines) >= 7
        /\ GroupOf(SentLines[1]) = 0
        /\ \A n \in 2..Len(SentLines) : GroupOf(SentLines[n]) \in 1..6
        /\ \A n \in 1..(Len(SentLines) - 1) :
               GroupOf(SentLines[n]) <= GroupOf(SentLines[n + 1])
        /\ \A k \in 1..6 :
               /\ SentLines[Len(SentLines) - 6 + k].kind = "instance"
               /\ SentLines[Len(SentLines) - 6 + k].key = InstanceKeys[k]
        /\ \A n \in 1..(Len(SentLines) - 6) : SentLines[n].kind # "instance"

\* a send with a line of every group
C4_Witness ==
    /\ Sent
    /\ \A g \in 0..6 : \E n \in DOMAIN zbx_data : GroupOf(zbx_data[n].line) = g


\* C5: the discovery document that is sent names every record of
\* process_dictionary, a MANAGER record made by parse_output_manager_identify
\* included.
C5_DiscoveryListsRegistry ==
    Sent =>
        \A name \in DOMAIN process_dictionary :
            \E k \in DOMAIN SentLines[1].data : SentLines[1].data[k] = name

\* C6: the discovery document lists each name once, the names of the detail
\* pass before those of the summary pass.
C6_DiscoveryNamesOnce ==
    json_string.kind = "discovery" =>
        /\ \A i, j \in DOMAIN json_string.data :
               i # j => json_string.data[i] # json_string.data[j]
        /\ \A i, j \in DOMAIN json_string.data :
               (i < j /\ json_string.data[i] \in DaemonNames)
                   => json_string.data[j] \in DaemonNames

ParsedKeys ==
    {"status", "chkptlag", "lag", "trail_name", "trail_type", "seq", "rba", "scn"}

\* C7: no line of a parsed field is emitted with the empty value: a field the
\* parser obtained no value for produces no line.
C7_NoLineWithoutValue ==
    \A n \in DOMAIN ogg_zabbix_list :
        ogg_zabbix_list[n].key \in ParsedKeys => ogg_zabbix_list[n].value # ""

\* processes_memory returned and main went on
AfterMemory ==
    \/ pc \in {"send_to_zabbix", "export_json_for_cmdb", "cleanup"}
    \/ pc = "exit" /\ failed \in {"", "cleanup"}

\* the PIDs of the OS listing
ListedPids == {ps_output.outlist[n][1] : n \in DOMAIN ps_output.outlist}

MemoryLinesOf(name) ==
    {n \in DOMAIN ogg_zabbix_list :
        ogg_zabbix_list[n].key = "memory" /\ ogg_zabbix_list[n].name = name}

\* C8: once processes_memory has returned, every record of the registry has
\* exactly one memory line, with the value 0 when the record's PID is not in
\* the OS listing; and processes_memory ends the run only when the listing
\* command itself failed, never because a PID is missing from the listing.
C8_MemoryLinePerRecord ==
    /\ AfterMemory =>
           \A name \in DOMAIN process_dictionary :
               /\ Cardinality(MemoryLinesOf(name)) = 1
               /\ process_dictionary[name][6] \notin ListedPids =>
                      \A n \in MemoryLinesOf(name) : ogg_zabbix_list[n].value = "0"
    /\ failed = "processes_memory" => ps_output.raised

\* a send after a listing that has the PID of one record and not of another
C8_Witness ==
    /\ Sent
    /\ ps_output.outlist # <<>>
    /\ \E name \in DOMAIN process_dictionary : process_dictionary[name][6] \in ListedPids
    /\ \E name \in DOMAIN process_dictionary :
           /\ process_dictionary[name][6] \notin ListedPids
           /\ \E n \in DOMAIN zbx_data :
                  /\ zbx_data[n].line.key = "memory"
                  /\ zbx_data[n].line.name = name
                  /\ zbx_data[n].line.value = "0"

\* C9 as claimed: a listing command that fails does not abort the run.
C9_ListingFailureNotFatal ==
    ps_output.raised => failed # "processes_memory" /\ exit_code # 1

\* C9 as amended: a listing command that fails is fatal: the run ends with a
\* non-zero status in processes_memory and nothing is sent.
C9_ListingFailureFatal ==
    ps_output.raised =>
        /\ pc = "exit"
        /\ exit_code = 1
        /\ failed = "processes_memory"
        /\ sender_runs = 0
        /\ zbx_data = <<>>
        /\ \A n \in DOMAIN ogg_zabbix_list : ogg_zabbix_list[n].key # "memory"

\* the listing command failed in a run that had built a registry
C9_Witness ==
    /\ ps_output.raised
    /\ DOMAIN process_dictionary # {}
    /\ json_string.kind = "discovery"

\* the report was obtained
ReportObtained == ogg_script_outlist # <<>>

\* a marker line of the section is not in the report
MarkerAbsent(start, end) ==
    Index(ogg_script_outlist, start) = 0 \/ Index(ogg_script_outlist, end) = 0

\* both marker lines are there, the end marker not after the start marker
MarkerMisordered(start, end) ==
    /\ ~MarkerAbsent(start, end)
    /\ Index(ogg_script_outlist, end) <= Index(ogg_script_outlist, start)

MarkerDefect(start, end) == MarkerAbsent(start, end) \/ MarkerMisordered(start, end)

\* C10 as claimed: a section with an absent or misordered marker pair (info *,
\* info all, getlag, and manager in classic mode) aborts the poll: nothing is
\* sent and the run does not end with status 0.
C10_AnyMarkerDefectFatal ==
    (/\ ReportObtained
     /\ \/ MarkerDefect(InfoStart, InfoEnd)
        \/ MarkerDefect(InfoAllStart, InfoAllEnd)
        \/ MarkerDefect(GetlagStart, GetlagEnd)
        \/ ogg_architecture = "classic" /\ MarkerDefect(ManagerStart, ManagerEnd))
    => /\ sender_runs = 0
       /\ exit_code # 0

\* the marker defects that end the run
FatalMarkerDefect ==
    \/ MarkerAbsent(InfoStart, InfoEnd)
    \/ MarkerAbsent(InfoAllStart, InfoAllEnd)
    \/ ogg_architecture = "classic" /\ MarkerDefect(ManagerStart, ManagerEnd)

\* C10 as amended: an absent marker of info * or info all, and in classic mode
\* an absent or misordered marker pair of the manager section, abort the poll
\* with nothing sent; a getlag section with an absent or misordered marker pair
\* never aborts the poll and contributes no lag line; a misordered info * or
\* info all section is skipped and is not by itself an error.
C10_MarkerDefects ==
    /\ (ReportObtained /\ FatalMarkerDefect) =>
           /\ sender_runs = 0
           /\ zbx_data = <<>>
           /\ pc \notin {"processes_memory", "send_to_zabbix",
                         "export_json_for_cmdb", "cleanup"}
           /\ pc = "exit" =>
                  /\ exit_code = 1
                  /\ failed \in {"parse_output_get_static_settings",
                                 "parse_output_info_section",
                                 "parse_output_manager_identify"}
    /\ failed # "parse_output_getlag_section"
    /\ (ReportObtained /\ MarkerDefect(GetlagStart, GetlagEnd)) =>
           \A n \in DOMAIN ogg_zabbix_list : ogg_zabbix_list[n].key # "lag"
    /\ (ReportObtained /\ MarkerMisordered(InfoStart, InfoEnd)
                       /\ ~MarkerAbsent(InfoAllStart, InfoAllEnd)) =>
           /\ failed \notin {"parse_output_get_static_settings",
                             "parse_output_info_section"}
           /\ \A k \in DOMAIN json_string.data : json_string.data[k] \in DaemonNames
    /\ (ReportObtained /\ MarkerMisordered(InfoAllStart, InfoAllEnd)) =>
           \A k \in DOMAIN json_string.data : json_string.data[k] \notin DaemonNames

\* a classic run that parsed processes and ended in parse_output_manager_identify
\* on a manager section whose end marker comes first
C10_Witness ==
    /\ ogg_architecture = "classic"
    /\ MarkerMisordered(ManagerStart, ManagerEnd)
    /\ failed = "parse_output_manager_identify"
    /\ DOMAIN process_dictionary # {}

\* the lines before the "info *" start marker hold neither a banner line nor
\* a Version line
NoDescriptor ==
    /\ ReportObtained
    /\ Index(ogg_script_outlist, InfoStart) # 0
    /\ \A i \in 1..(Index(ogg_script_outlist, InfoStart) - 1) :
           /\ \A ph \in BannerPhrases : ~Contains(ogg_script_outlist[i], ph)
           /\ ~StrHas(ogg_script_outlist[i][1], "Version")

\* C11: a report without banner and Version line ends the run in
\* parse_output_get_static_settings with nothing sent, so the version and
\* database lines are never sent both empty.
C11_NoDescriptorFatal ==
    /\ (NoDescriptor /\ pc # "parse_output_get_static_settings") =>
           /\ pc = "exit"
           /\ failed = "parse_output_get_static_settings"
           /\ sender_runs = 0
    /\ Sent => ~(\E n, m \in DOMAIN SentLines :
                    /\ SentLines[n].key = "version" /\ SentLines[n].value = ""
                    /\ SentLines[m].key = "database" /\ SentLines[m].value = "")

\* the positions of the report that parse_output_getlag_section scans
GetlagWindow ==
    IF MarkerDefect(GetlagStart, GetlagEnd) THEN {}
    ELSE Index(ogg_script_outlist, GetlagStart)..(Index(ogg_script_outlist, GetlagEnd) - 1)

IsSending(tok) == Contains(LowerTokens(tok), <<"sending", "getlag", "request", "to">>)

IsLastRecordLag(tok) == ContainsThenMore(tok, <<"Last", "record", "lag">>)

IsNoRecords(tok) == Contains(tok, <<"No", "records", "yet", "processed">>)

\* the line is tested for 'Average Lag:'
IsAverageLag(tok) ==
    /\ ~IsSending(tok)
    /\ ~ContainsAfterStart(tok, <<"not", "currently", "running">>)
    /\ Contains(tok, <<"Average", "Lag:">>)

\* the scan raises at position i: a word the code indexes is not there
GetlagRaisesAt(i) ==
    \/ IsSending(ogg_script_outlist[i]) /\ Len(ogg_script_outlist[i]) < 6
    \/ /\ IsSending(ogg_script_outlist[i])
       /\ IsLastRecordLag(ogg_script_outlist[i + 1])
       /\ Len(ogg_script_outlist[i + 1]) < 4
    \/ IsAverageLag(ogg_script_outlist[i]) /\ Len(ogg_script_outlist[i]) < 3

\* the scan appends a lag line at position i
GetlagEmitsAt(i) ==
    /\ ~GetlagRaisesAt(i)
    /\ \/ /\ IsSending(ogg_script_outlist[i])
          /\ \/ IsLastRecordLag(ogg_script_outlist[i + 1])
             \/ IsNoRecords(ogg_script_outlist[i + 1])
       \/ IsAverageLag(ogg_script_outlist[i])

\* the positions the scan gets through before an exception ends it
GetlagScanned ==
    {i \in GetlagWindow : \A j \in GetlagWindow : j < i => ~GetlagRaisesAt(j)}

\* C12: parse_output_getlag_section never ends the run: main goes on to
\* parse_output_manager_identify, the lines collected before are kept as they
\* are, the registry and the discovery document are unchanged, and the lines
\* added are the lag lines of the positions scanned before an exception.
C12_GetlagBestEffort ==
    [][pc = "parse_output_getlag_section" =>
         /\ pc' = "parse_output_manager_identify"
         /\ failed' = ""
         /\ exit_code' = -1
         /\ Len(ogg_zabbix_list') >= Len(ogg_zabbix_list)
         /\ SubSeq(ogg_zabbix_list', 1, Len(ogg_zabbix_list)) = ogg_zabbix_list
         /\ \A n \in (Len(ogg_zabbix_list) + 1)..Len(ogg_zabbix_list') :
                ogg_zabbix_list'[n].key = "lag"
         /\ Len(ogg_zabbix_list') - Len(ogg_zabbix_list)
                = Cardinality({i \in GetlagScanned : GetlagEmitsAt(i)})
         /\ UNCHANGED <<process_dictionary, json_string, ogg_version, ogg_database>>
    ]_vars

\* a run that sent a lag line collected before the scan of the getlag section
\* raised, next to status lines
C12_Witness ==
    /\ Sent
    /\ \E i \in GetlagWindow : GetlagRaisesAt(i)
    /\ \E n \in DOMAIN SentLines : SentLines[n].key = "lag"
    /\ \E n \in DOMAIN SentLines : SentLines[n].key = "status"

ProcessKeys ==
    {"status", "chkptlag", "trail_name", "trail_type", "seq", "rba", "scn", "lag",
     "memory"}

\* C13: every per-process line handed to the sender is
\* <host> ogg.process[<name>,<key>] <ts> "<value>": the item opens with
\* 'ogg.process[' without a blank, and the key is one of the nine keys.
C13_ProcessLineShape ==
    Sent =>
        \A n \in DOMAIN SentLines :
            SentLines[n].kind = "process" =>
                /\ SentLines[n].item = "ogg.process["
                /\ SentLines[n].key \in ProcessKeys
                /\ zbx_data[n].host = zbx_hostname

\* parse_output_manager_identify returned
HostIdentified ==
    \/ pc \in {"processes_memory", "send_to_zabbix", "export_json_for_cmdb", "cleanup"}
    \/ pc = "exit" /\ failed \in {"", "cleanup", "processes_memory"}

\* the port of the run: the one of the manager line, or the service manager's
RunPort == IF ogg_architecture = "classic" THEN "7809" ELSE sm_port

\* classic architecture, instance-tag mode, and the lookup returned a value
InstanceTagCase ==
    /\ ogg_architecture = "classic"
    /\ use_hostname_for_zabbix = "NO"
    /\ mgr_prm_output # ""

ManagerWindow ==
    IF MarkerDefect(ManagerStart, ManagerEnd) THEN {}
    ELSE Index(ogg_script_outlist, ManagerStart)..(Index(ogg_script_outlist, ManagerEnd) - 1)

\* classic architecture and a report with no 'Manager is running' line in the
\* manager section
NoRunningManager ==
    /\ ogg_architecture = "classic"
    /\ ReportObtained
    /\ \A i \in ManagerWindow :
           ~Contains(ogg_script_outlist[i], <<"Manager", "is", "running">>)

\* C15: in classic architecture a manager section that is empty or has no
\* 'Manager is running' line ends the run no later than in
\* parse_output_manager_identify: the host identifier stays unset and nothing
\* is sent.
C15_NoManagerPortFatal ==
    NoRunningManager =>
        /\ zbx_hostname = ""
        /\ sender_runs = 0
        /\ zbx_data = <<>>
        /\ pc \in {"parse_output_get_static_settings", "parse_output_info_section",
                   "parse_output_getlag_section", "parse_output_manager_identify",
                   "exit"}
        /\ pc = "exit" =>
               /\ exit_code = 1
               /\ failed \in {"parse_output_get_static_settings",
                              "parse_output_info_section",
                              "parse_output_manager_identify"}

\* a classic run with parsed processes that ended in
\* parse_output_manager_identify on a well-delimited section saying the
\* manager is down
C15_Witness ==
    /\ NoRunningManager
    /\ ~MarkerDefect(ManagerStart, ManagerEnd)
    /\ \E i \in ManagerWindow : ogg_script_outlist[i] = <<"Manager", "is", "DOWN!">>
    /\ failed = "parse_output_manager_identify"
    /\ DOMAIN process_dictionary # {}

\* the positions of the report that the detail pass scans
InfoWindow ==
    IF MarkerDefect(InfoStart, InfoEnd) THEN {}
    ELSE Index(ogg_script_outlist, InfoStart)..(Index(ogg_script_outlist, InfoEnd) - 1)

\* the line at position i opens a process
OpensProcessAt(i) ==
    /\ Len(ogg_script_outlist[i]) >= 2
    /\ ogg_script_outlist[i][1] \in {"EXTRACT", "REPLICAT"}

\* the line at position i opens a process and ends with the Status label
ValuelessStatusAt(i) ==
    /\ OpensProcessAt(i)
    /\ Index(ogg_script_outlist[i], "Status") = Len(ogg_script_outlist[i])

\* parse_output_info_section was called on a report with all its info markers
InfoParsed ==
    /\ ReportObtained
    /\ ~MarkerAbsent(InfoStart, InfoEnd)
    /\ ~MarkerAbsent(InfoAllStart, InfoAllEnd)
    /\ pc \notin {"parse_output_get_static_settings", "parse_output_info_section"}
    /\ failed # "parse_output_get_static_settings"

\* C16: a process-opening line whose Status label has no value after it does
\* not fail the run: the name is in the registry and in the discovery list,
\* and no status line is emitted for that opening line.
C16_ValuelessStatusRecorded ==
    InfoParsed =>
        \A i \in InfoWindow :
            ValuelessStatusAt(i) =>
                /\ failed # "parse_output_info_section"
                /\ ogg_script_outlist[i][2] \in DOMAIN process_dictionary
                /\ \E k \in DOMAIN json_string.data :
                       json_string.data[k] = ogg_script_outlist[i][2]
                /\ \A n \in DOMAIN ogg_zabbix_list :
                       ~(/\ ogg_zabbix_list[n].key = "status"
                         /\ ogg_zabbix_list[n].name = ogg_script_outlist[i][2])

\* the line at position i is a 'Checkpoint Lag 00:01:30' line that follows the
\* line opening a process
FollowingCheckpointLagAt(i) ==
    /\ i - 1 \in InfoWindow
    /\ OpensProcessAt(i - 1)
    /\ ~OpensProcessAt(i)
    /\ Len(ogg_script_outlist[i]) >= 3
    /\ SubSeq(ogg_script_outlist[i], 1, 3) = <<"Checkpoint", "Lag", "00:01:30">>

\* C17: a line that follows a process-opening line is attributed to the
\* process opened last: a following line 'Checkpoint Lag 00:01:30' gives that
\* process a chkptlag line with the value 90.
C17_FollowingLinesAttributed ==
    (InfoParsed /\ failed # "parse_output_info_section") =>
        \A i \in InfoWindow :
            FollowingCheckpointLagAt(i) =>
                \E n \in DOMAIN ogg_zabbix_list :
                    /\ ogg_zabbix_list[n].key = "chkptlag"
                    /\ ogg_zabbix_list[n].name = ogg_script_outlist[i - 1][2]
                    /\ ogg_zabbix_list[n].value = "90"

\* the elements of the PID list that processes_memory is about to give to ps
PassedPids ==
    LET pids == StrSplit(PidString(process_dictionary), ",")
    IN  {pids[n] : n \in DOMAIN pids}

\* C18: the PID list that processes_memory passes to the OS query holds no
\* sentinel PID: neither "-1" (not determinable) nor "0" (the fallback).
C18_NoSentinelPidPassed ==
    pc = "processes_memory" => PassedPids \cap {"-1", "0"} = {}

\* the sent lines that carry a process's memory
SentMemoryLines == SelectSeq(SentLines, LAMBDA line : line.kind = "process" /\ line.key = "memory")

RECURSIVE ValuesSum(_)
\* the sum of int(value) over a list of lines
ValuesSum(lines) ==
    IF Len(lines) = 0 THEN 0
    ELSE IntOf(Head(lines).value) + ValuesSum(Tail(lines))

\* C19: the memory_usage value sent in a run is the sum of the values of the
\* per-process memory lines sent in that run, and there is one such line, so
\* one term, for every record of the registry, whether or not records share
\* a PID.
C19_MemoryUsageIsSum ==
    Sent =>
        /\ \E n \in DOMAIN SentLines : SentLines[n].key = "memory_usage"
        /\ \A n \in DOMAIN SentLines :
               SentLines[n].key = "memory_usage" =>
                   /\ IntOk(SentLines[n].value)
                   /\ IntOf(SentLines[n].value) = ValuesSum(SentMemoryLines)
        /\ Len(SentMemoryLines) = Cardinality(DOMAIN process_dictionary)
        /\ \A name \in DOMAIN process_dictionary :
               \E n \in DOMAIN SentMemoryLines :
                   /\ SentMemoryLines[n].name = name
                   /\ SentMemoryLines[n].value = process_dictionary[name][7]

\* two records share the PID 1234, the listing gives it 4096 bytes, and the
\* total sent is 8192
C19_Witness ==
    /\ Sent
    /\ \E a, b \in DOMAIN process_dictionary :
           /\ a # b
           /\ process_dictionary[a][6] = "1234"
           /\ process_dictionary[b][6] = "1234"
           /\ process_dictionary[a][7] = "4096"
           /\ process_dictionary[b][7] = "4096"
    /\ \E n \in DOMAIN SentLines :
           /\ SentLines[n].key = "memory_usage"
           /\ SentLines[n].value = "8192"

\* parse_output_getlag_section has returned and main is about to go on
GetlagParsed ==
    /\ ReportObtained
    /\ pc = "parse_output_manager_identify"

\* the lag lines collected, in the order they were appended
LagLines == SelectSeq(ogg_zabbix_list, LAMBDA line : line.key = "lag")

\* what the line after the sending line at i decides: one value or none
NextLineLag(i) ==
    LET nxt == ogg_script_outlist[i + 1]
    IN  IF IsLastRecordLag(nxt) /\ Len(nxt) >= 4
        THEN <<StrRemove(StrRemove(nxt[4], ","), ".")>>
        ELSE IF ~IsLastRecordLag(nxt) /\ IsNoRecords(nxt) THEN <<"0">>
        ELSE <<>>

\* the sending lines of the getlag section that name a process
SendingLines ==
    {i \in GetlagWindow : IsSending(ogg_script_outlist[i]) /\ Len(ogg_script_outlist[i]) >= 6}

\* the sending lines before and at i that name the process of i and get a value
DecidedUpTo(i) ==
    {j \in SendingLines : /\ j <= i
                          /\ ogg_script_outlist[j][6] = ogg_script_outlist[i][6]
                          /\ NextLineLag(j) # <<>>}

\* the lag lines of the process that the sending line at i names
LagLinesOf(i) == SelectSeq(LagLines, LAMBDA line : line.name = ogg_script_outlist[i][6])

\* C20 as stated: for every sending line of the getlag section the lag metric
\* of the named process is decided by the next line alone: 'Last record lag'
\* gives the fourth word without ',' and '.', 'No records yet processed'
\* gives 0, any other next line gives no lag metric for that entry.
C20_NextLineAloneDecides ==
    GetlagParsed =>
        \A i \in SendingLines :
            /\ Len(LagLinesOf(i)) = Cardinality({j \in SendingLines :
                                         /\ ogg_script_outlist[j][6] = ogg_script_outlist[i][6]
                                         /\ NextLineLag(j) # <<>>})
            /\ NextLineLag(i) # <<>> =>
                   LagLinesOf(i)[Cardinality(DecidedUpTo(i))].value = NextLineLag(i)[1]

\* the positions at which the scan appended a lag line
EmitPositions == {i \in GetlagScanned : GetlagEmitsAt(i)}

\* process_name while the scan is at i: the sixth word of the latest of the
\* sending lines up to i, '' before the first
NamedLast(sending, i) ==
    LET before == {j \in sending : j <= i}
    IN  IF before = {} THEN ""
        ELSE ogg_script_outlist[CHOOSE j \in before : \A k \in before : k <= j][6]

\* the value of the lag line appended at position i
DecidedLag(sending, i) ==
    IF i \in sending THEN NextLineLag(i)[1]
    ELSE StrRemove(StrRemove(ogg_script_outlist[i][3], ","), ".")

\* the lag lines are those of the emitting positions, in their order
LagDecided(sending, emit, lag) ==
    /\ Len(lag) = Cardinality(emit)
    /\ \A i \in emit :
           /\ lag[Cardinality({j \in emit : j <= i})].name = NamedLast(sending, i)
           /\ lag[Cardinality({j \in emit : j <= i})].value = DecidedLag(sending, i)

\* C20: the lag lines of a run are, in order, those of the positions the scan
\* of the getlag section reached before an exception: a sending line gives
\* one for the process it names when the next line is a 'Last record lag'
\* line (fourth word without ',' and '.') or a 'No records yet processed'
\* line (0) and none for any other next line, and an 'Average Lag:' line
\* gives one (third word without ',' and '.') for the process named last;
\* and the lag lines sent are the ones the scan left.
C20_LagDecidedByScan ==
    /\ GetlagParsed => LagDecided(SendingLines, EmitPositions, LagLines)
    /\ Sent => SelectSeq(SentLines, LAMBDA line : line.key = "lag") = LagLines

\* a run that sent the lag 12345678 decided by a 'Last record lag' line and
\* the lag 7 of an 'Average Lag:' line, both for the process named last
C20_Witness ==
    /\ Sent
    /\ \E i \in SendingLines :
           /\ i \in EmitPositions
           /\ NextLineLag(i) = <<"12345678">>
           /\ \E j \in EmitPositions :
                  /\ j > i
                  /\ IsAverageLag(ogg_script_outlist[j])
                  /\ NamedLast(SendingLines, j) = ogg_script_outlist[i][6]
    /\ \E n \in DOMAIN SentLines :
           SentLines[n].key = "lag" /\ SentLines[n].value = "12345678"
    /\ \E n \in DOMAIN SentLines :
           SentLines[n].key = "lag" /\ SentLines[n].value = "7"

\* a line of the getlag section with 'Average Lag:' and a third word, after a
\* sending line
AverageLagLines ==
    {i \in GetlagWindow :
        /\ Contains(ogg_script_outlist[i], <<"Average", "Lag:">>)
        /\ Len(ogg_script_outlist[i]) >= 3
        /\ \E j \in SendingLines : j < i}

\* C21 as stated: each 'Average Lag:' line of the getlag section gives a lag
\* line for the process of the closest sending line before it, with its third
\* word without ',' and '.' as value, whatever lines lie between them.
C21_EveryAverageLagLine ==
    GetlagParsed =>
        \A i \in AverageLagLines :
            \E n \in DOMAIN LagLines :
                /\ LagLines[n].name = NamedLast(SendingLines, i)
                /\ LagLines[n].value = StrRemove(StrRemove(ogg_script_outlist[i][3], ","), ".")

\* every scanned 'Average Lag:' line gives exactly one lag line, the one of
\* its rank among the emitting positions, named as the closest sending line
\* before it
AverageLagDecided(scanned, sending, emit, lag) ==
    /\ Len(lag) = Cardinality(emit)
    /\ \A i \in scanned :
           (IsAverageLag(ogg_script_outlist[i]) /\ Len(ogg_script_outlist[i]) >= 3)
               => i \in emit
    /\ \A i \in emit :
           (IsAverageLag(ogg_script_outlist[i]) /\ \E j \in sending : j < i) =>
               \E j \in sending :
                   /\ j < i
                   /\ \A k \in sending : k < i => k <= j
                   /\ lag[Cardinality({k \in emit : k <= i})].name = ogg_script_outlist[j][6]
                   /\ lag[Cardinality({k \in emit : k <= i})].value
                          = StrRemove(StrRemove(ogg_script_outlist[i][3], ","), ".")

\* C21: each 'Average Lag:' line that the scan of the getlag section reaches
\* before an exception, and that is neither a sending line nor a 'not
\* currently running' line, gives exactly one lag line: its process is the
\* one named by the closest sending line before it, whatever lines lie
\* between them, and its value is the line's third word without ',' and '.'.
C21_AverageLagNamedLast ==
    GetlagParsed =>
        AverageLagDecided(GetlagScanned, SendingLines, EmitPositions, LagLines)

\* two sending lines name different processes and the 'Average Lag:' line
\* after them gave its lag to the second, not to the first
C21_Witness ==
    /\ GetlagParsed
    /\ \E a, b \in SendingLines :
           /\ a < b
           /\ ogg_script_outlist[a][6] # ogg_script_outlist[b][6]
           /\ \E i \in EmitPositions :
                  /\ i > b
                  /\ IsAverageLag(ogg_script_outlist[i])
                  /\ \E n \in DOMAIN LagLines :
                         /\ LagLines[n].name = ogg_script_outlist[b][6]
                         /\ LagLines[n].value = "7"
           /\ \A n \in DOMAIN LagLines : LagLines[n].name # ogg_script_outlist[a][6]

\* range(parse_start, parse_end) of the pass over "info all"
InfoAllWindow ==
    IF MarkerDefect(InfoAllStart, InfoAllEnd) THEN {}
    ELSE Index(ogg_script_outlist, InfoAllStart)..(Index(ogg_script_outlist, InfoAllEnd) - 1)

\* the report has every section's marker pair, each in order, the sections in
\* the order of the console script
WellFormedReport ==
    /\ ReportObtained
    /\ ~MarkerDefect(InfoStart, InfoEnd)
    /\ ~MarkerDefect(InfoAllStart, InfoAllEnd)
    /\ ~MarkerDefect(GetlagStart, GetlagEnd)
    /\ ~MarkerDefect(ManagerStart, ManagerEnd)
    /\ Index(ogg_script_outlist, InfoEnd) < Index(ogg_script_outlist, InfoAllStart)
    /\ Index(ogg_script_outlist, InfoAllEnd) < Index(ogg_script_outlist, GetlagStart)
    /\ Index(ogg_script_outlist, GetlagEnd) < Index(ogg_script_outlist, ManagerStart)

\* the positions of the report that hold a marker line
MarkerPositions ==
    {i \in DOMAIN ogg_script_outlist :
        ogg_script_outlist[i] \in {InfoStart, InfoEnd, InfoAllStart, InfoAllEnd,
                                   GetlagStart, GetlagEnd, ManagerStart, ManagerEnd}}

\* every position of window a comes before every position of window b
WindowBefore(a, b) == \A i \in a : \A j \in b : i < j

\* C22: for a well-formed report the ranges the parsers iterate over do not
\* overlap, follow the order of the report, and hold no marker line, neither
\* a start marker nor an end marker.
C22_WindowsExcludeMarkers ==
    WellFormedReport =>
        /\ WindowBefore(InfoWindow, InfoAllWindow)
        /\ WindowBefore(InfoAllWindow, GetlagWindow)
        /\ WindowBefore(GetlagWindow, ManagerWindow)
        /\ (InfoWindow \cup InfoAllWindow \cup GetlagWindow \cup ManagerWindow)
               \cap MarkerPositions = {}

\* the lines collected for a process under one of the given keys
LinesOf(name, keys) ==
    {n \in DOMAIN ogg_zabbix_list :
        ogg_zabbix_list[n].name = name /\ ogg_zabbix_list[n].key \in keys}

\* the value the lines collected for a process under a key may have
OnlyValue(name, key, value) ==
    \A n \in LinesOf(name, {key}) : ogg_zabbix_list[n].value = value

\* C23: every record named as a service daemon (MANAGER, ADMINSRV, ADMINSRVR,
\* DISTSRVR, PMSRVR, RECVSRVR) has trail name NONE, trail type NONE, sequence
\* 0, RBA 0 and SCN 0, its trail lines carry these values, and no chkptlag or
\* lag line is collected or sent for it.
C23_DaemonDefaults ==
    \A name \in DOMAIN process_dictionary \cap DaemonNames :
        /\ SubSeq(process_dictionary[name], 1, 5) = <<"NONE", "NONE", "0", "0", "0">>
        /\ OnlyValue(name, "trail_name", "NONE")
        /\ OnlyValue(name, "trail_type", "NONE")
        /\ OnlyValue(name, "seq", "0")
        /\ OnlyValue(name, "rba", "0")
        /\ OnlyValue(name, "scn", "0")
        /\ LinesOf(name, {"chkptlag", "lag"}) = {}
        /\ \A n \in DOMAIN SentLines :
               SentLines[n].name = name => SentLines[n].key \notin {"chkptlag", "lag"}

\* a run that sent the lines of two daemons, the manager with the PID of its
\* 'Manager is running' line, next to a process with a chkptlag line
C23_Witness ==
    /\ Sent
    /\ "MANAGER" \in DOMAIN process_dictionary
    /\ process_dictionary["MANAGER"][6] = "1234"
    /\ "PMSRVR" \in DOMAIN process_dictionary
    /\ LinesOf("PMSRVR", {"trail_name"}) # {}
    /\ \E n \in DOMAIN SentLines : SentLines[n].key = "chkptlag"

\* the lines of the "info *" section that open the process report no trail
ReportsNoTrail(name) ==
    /\ \E i \in InfoWindow : OpensProcessAt(i) /\ ogg_script_outlist[i][2] = name
    /\ \A i \in InfoWindow :
           (OpensProcessAt(i) /\ ogg_script_outlist[i][2] = name) =>
               /\ ~Contains(ogg_script_outlist[i], <<"Trail", "Name">>)
               /\ ~Contains(ogg_script_outlist[i], <<"Log", "Read", "Checkpoint", "File">>)

\* C24: the record of an EXTRACT or REPLICAT process whose lines report no
\* trail has trail name NONE and trail type NONE, and the trail_name and
\* trail_type lines collected for it have the value NONE.
C24_NoTrailIsNone ==
    \A name \in DOMAIN process_dictionary \ DaemonNames :
        ReportsNoTrail(name) =>
            /\ process_dictionary[name][1] = "NONE"
            /\ process_dictionary[name][2] = "NONE"
            /\ OnlyValue(name, "trail_name", "NONE")
            /\ OnlyValue(name, "trail_type", "NONE")

\* the marker lines of the report are the ones the console script prints
AsPrinted ==
    SelectSeq(ogg_script_outlist, LAMBDA line : Len(line) > 0 /\ line[1] = "====")
        = PrintedMarkers

\* the manager section of a printed report holds a 'Manager is running' line
PrintedManagerRunning ==
    \E i \in DOMAIN ogg_script_outlist :
        /\ Index(ogg_script_outlist, PrintedMarkers[7]) < i
        /\ i < Index(ogg_script_outlist, ManagerEnd)
        /\ Contains(ogg_script_outlist[i], <<"Manager", "is", "running">>)

\* C25: the markers the parsers search for are the marker lines the console
\* script prints, so the report that script produces for a classic instance
\* with a running manager gets through manager identification.
C25_PrintedReportIdentified ==
    (AsPrinted /\ ogg_architecture = "classic" /\ PrintedManagerRunning) =>
        failed # "parse_output_manager_identify"

\* the lines of the "info *" section that open the process report no Process ID
ReportsNoPid(name) ==
    /\ \E i \in InfoWindow : OpensProcessAt(i) /\ ogg_script_outlist[i][2] = name
    /\ \A i \in InfoWindow :
           (OpensProcessAt(i) /\ ogg_script_outlist[i][2] = name) =>
               ~Contains(ogg_script_outlist[i], <<"Process", "ID">>)

\* C26: the PID and the trail type of a process's record come from its own
\* lines only: a process whose lines report no Process ID keeps the fallback
\* PID 0 and gets no memory of another process, and one whose lines report no
\* trail has no trail type of another process.
C26_OwnLinesOnly ==
    \A name \in DOMAIN process_dictionary \ DaemonNames :
        /\ ReportsNoPid(name) =>
               /\ process_dictionary[name][6] = "0"
               /\ OnlyValue(name, "memory", "0")
        /\ ReportsNoTrail(name) => process_dictionary[name][2] \in {"", "NONE"}

\* every process that a sending line of the getlag section names has a record
SendingNamesRegistered ==
    \A i \in SendingLines : ogg_script_outlist[i][6] \in DOMAIN process_dictionary

\* C27: every lag line of the getlag pass names a process that has a record
\* in the registry, and none names the empty name, even when an 'Average
\* Lag:' line comes before any sending line.
C27_LagNamesRegistered ==
    (GetlagParsed /\ SendingNamesRegistered) =>
        \A n \in DOMAIN LagLines :
            /\ LagLines[n].name # ""
            /\ LagLines[n].name \in DOMAIN process_dictionary

=============================================================================
